---- MODULE Spec2Model ----
(***************************************************************************)
(* Detection-as-Code for Logz.io: the rule cleaner (clean-rules.py), the   *)
(* rule validator (validate-rules.py) and the rule deployer                *)
(* (deploy_security_rules.py), modelled as state machines over JSON        *)
(* documents.                                                              *)
(*                                                                         *)
(*   SpecNormalize : a rule file is edited, loaded, and cleaned by         *)
(*                   clean_rule_json or clean_rule (once, then again on    *)
(*                   the result); or clean-rules.py runs on the file or on *)
(*                   a directory and saves what it cleaned                 *)
(*   SpecValidate  : a rule file is edited and validate-rules.py runs on   *)
(*                   it, or on a rules directory                           *)
(*   Spec          : the deployer applies rule files to a remote service   *)
(*   SpecBatch     : the deployer applies the files of a rules directory   *)
(*                   in the order the directory listing gives them         *)
(*   SpecReconcile : the deployer against a remote that stores the rules   *)
(*   FairSpec      : Spec, with the deployer running until main exits      *)
(***************************************************************************)
EXTENDS Integers, Sequences, FiniteSets, TLC

VARIABLES
    rule_file, \* content of the rule file being cleaned / validated (a JSON value)
    file_path, \* the path of that file (--file), "" when the tool runs on a directory
    disk,      \* the other files and the directories: path -> content
    in_place,  \* clean-rules.py: --in-place
    edits,     \* number of edits made to the rule file so far
    pc,        \* position of the running tool
    heap,      \* Python objects of the cleaner run: address -> shallow object
    ncalls,    \* the normalizer calls made so far: <<[fn, raised, ret, val]>>
    errors,    \* LogzioRuleValidator.errors
    warnings,  \* LogzioRuleValidator.warnings
    valid,     \* what validate_file returned
    strict,    \* whether the validator runs with --strict
    exit_code, \* exit status of the running process (-1 while it runs)
    api_token,      \* LOGZIO_API_TOKEN, "" when it is unset or empty
    api_url,        \* LOGZIO_API_URL, "" when it is unset or empty
    rule_files,     \* deploy_all_rules: the paths rules_path.glob('*.json') yields
    file_idx,       \* deploy_all_rules: index of the file being deployed
    title,          \* deploy_rule: rule_title
    cleaned_json,   \* deploy_rule: cleaned_data
    search_result,  \* deploy_rule: what search_rule_by_title returned
    next_endpoint,  \* _create_rule: index of the endpoint the loop tries next
    calls,          \* the requests deploy_rule has issued for the current file
    write_statuses, \* the statuses of the responses to its PUT and create POST requests
    response,       \* the response to the last request
    outcome,        \* what the last deploy_rule call returned
    results,        \* deploy_all_rules: results
    applied,        \* how many write requests of the current file took effect remotely
    remote          \* the rules the remote service stores: <<[id, title, enabled]>>

fsVars == <<file_path, disk, in_place>>
deployEnv == <<api_token, api_url, rule_files>>
normVars == <<heap, ncalls, fsVars>>
valVars == <<errors, warnings, valid, strict, exit_code>>
deployVars == <<api_token, api_url, rule_files, file_idx, title, cleaned_json, search_result,
                next_endpoint, calls, write_statuses, response, outcome, results,
                applied, remote>>
vars == <<rule_file, file_path, disk, in_place, edits, pc, heap, ncalls, errors, warnings, valid, strict, exit_code,
          api_token, api_url, rule_files, file_idx, title, cleaned_json, search_result,
          next_endpoint, calls, write_statuses, response, outcome, results,
          applied, remote>>

(***************************************************************************)
(* Bounds of the model.                                                    *)
(***************************************************************************)
NumSubComponents == 2     \* subComponents of the base rule document
MaxEdits == 2             \* edits applied to the base rule document

(***************************************************************************)
(* JSON values as Python sees them after json.load.  The kind field k      *)
(* sorts before the payload v, so values of different kinds compare        *)
(* unequal without their payloads being compared.  A dict holds its keys   *)
(* in insertion order (field o) next to its mapping (field v).             *)
(***************************************************************************)
Str(s) == [k |-> "str", v |-> s]
Num(n) == [k |-> "num", v |-> n]
Bool(b) == [k |-> "bool", v |-> b]
Null == [k |-> "null", v |-> 0]
List(q) == [k |-> "list", v |-> q]
\* a dict with the keys of mapping f in the order of the sequence order
MkDict(order, f) == [k |-> "dict", o |-> order, v |-> f]
\* the dict literal {k1: v1, k2: v2, ...}, written <<k1 :> v1, k2 :> v2, ...>>
\* (distinct keys)
Dict(items) ==
    LET KeyOf(item) == CHOOSE key \in DOMAIN item : TRUE
    IN  MkDict([i \in 1..Len(items) |-> KeyOf(items[i])],
               [key \in {KeyOf(items[i]) : i \in 1..Len(items)} |->
                   items[CHOOSE i \in 1..Len(items) : KeyOf(items[i]) = key][key]])
\* a reference to a container object of the heap
Ref(a) == [k |-> "ref", v |-> a]
\* marks a key that an edit removes
Absent == [k |-> "absent", v |-> 0]
EmptyMap == [x \in {} |-> Null]

IsContainer(val) == val.k \in {"dict", "list"}

\* Python: sub in s, for two str
Contains(s, sub) ==
    \E i \in 1..(Len(s) - Len(sub) + 1) : SubSeq(s, i, i + Len(sub) - 1) = sub

\* Python: key in obj raises TypeError unless obj is a dict, a list or a str
InRaises(obj) == obj.k \notin {"dict", "list", "str"}

\* Python: key in obj, for a str key and obj a dict (key test), a list
\* (element test) or a str (substring test)
In(key, obj) ==
    CASE obj.k = "dict" -> key \in DOMAIN obj.v
      [] obj.k = "list" -> \E i \in 1..Len(obj.v) : obj.v[i] = Str(key)
      [] obj.k = "str" -> Contains(obj.v, key)
      [] OTHER -> FALSE

\* a dict without the keys of ks (pop(key, None) / del d[key] on each): the
\* keys that stay keep their order
Without(obj, ks) ==
    MkDict(SelectSeq(obj.o, LAMBDA key : key \notin ks),
           [key \in (DOMAIN obj.v) \ ks |-> obj.v[key]])

\* d[key] = val: a new key goes last, a key the dict has keeps its place
With(obj, key, val) ==
    MkDict(IF key \in DOMAIN obj.v THEN obj.o ELSE Append(obj.o, key),
           (key :> val) @@ obj.v)

\* the elements of a sequence, as a set
Range(q) == {q[i] : i \in 1..Len(q)}

(***************************************************************************)
(* The heap.  Every dict and list is an object at an address (a path of    *)
(* strings); an object holds its scalar children by value and its          *)
(* container children by reference, as Python does.                        *)
(***************************************************************************)
MergeAll(fs) ==
    [a \in UNION {DOMAIN f : f \in fs} |-> (CHOOSE f \in fs : a \in DOMAIN f)[a]]

\* what a parent holds for child value val stored at address a
Slot(a, val) == IF IsContainer(val) THEN Ref(a) ELSE val

RECURSIVE Alloc(_, _)
\* the objects that building value val at address a creates
\* (json.load, copy.deepcopy)
Alloc(a, val) ==
    CASE val.k = "dict" ->
           (a :> MkDict(val.o, [key \in DOMAIN val.v |-> Slot(a \o <<key>>, val.v[key])]))
           @@ MergeAll({Alloc(a \o <<key>>, val.v[key]) : key \in DOMAIN val.v})
      [] val.k = "list" ->
           (a :> List([i \in 1..Len(val.v) |-> Slot(a \o <<ToString(i - 1)>>, val.v[i])]))
           @@ MergeAll({Alloc(a \o <<ToString(i - 1)>>, val.v[i]) : i \in 1..Len(val.v)})
      [] OTHER -> EmptyMap

\* the object a slot denotes: the heap object of a reference, else the scalar
Obj(h, slot) == IF slot.k = "ref" THEN h[slot.v] ELSE slot

RECURSIVE Deref(_, _)
\* the JSON value reachable from a slot (what == compares, what json.dump writes)
Deref(h, slot) ==
    IF slot.k # "ref" THEN slot
    ELSE LET o == h[slot.v]
         IN IF o.k = "dict"
            THEN MkDict(o.o, [key \in DOMAIN o.v |-> Deref(h, o.v[key])])
            ELSE List([i \in 1..Len(o.v) |-> Deref(h, o.v[i])])

\* results of a call that may raise
Return(h, slot) == [raised |-> FALSE, heap |-> h, ret |-> slot]
Raise(h) == [raised |-> TRUE, heap |-> h, ret |-> Null]

(***************************************************************************)
(* Files.  A file system maps the paths that exist to what they hold: a    *)
(* directory, or the content of a file, which is the document the file     *)
(* holds in the format of its suffix, or text that the parser of that      *)
(* format rejects.                                                         *)
(***************************************************************************)
\* what a path that does not exist holds
\* what a path holds when no file is there (Path.exists() is False), and when
\* it is a directory
NoFile == [k |-> "nofile", v |-> 0]
Directory == [k |-> "dir", v |-> 0]
\* file content that json.load (yaml.safe_load for a YAML file) rejects
InvalidJson == [k |-> "invalid", v |-> 0]

RECURSIVE LastIndexIn(_, _, _)
\* the last position of character ch among the first n of s, 0 when they
\* have none
LastIndexIn(s, ch, n) ==
    IF n = 0 \/ SubSeq(s, n, n) = ch THEN n ELSE LastIndexIn(s, ch, n - 1)

\* s.rfind(ch) + 1: the last position of character ch in s, 0 when it has none
LastIndex(s, ch) == LastIndexIn(s, ch, Len(s))

\* Path.name: the last component of a path
Name(path) == SubSeq(path, LastIndex(path, "/") + 1, Len(path))
\* Path.suffix: the name from its last dot on, unless the dot starts or ends it
Suffix(path) ==
    LET name == Name(path)
        dot == LastIndex(name, ".")
    IN  IF 1 < dot /\ dot < Len(name) THEN SubSeq(name, dot, Len(name)) ELSE ""
\* Path.stem: the name without its suffix
Stem(path) == SubSeq(Name(path), 1, Len(Name(path)) - Len(Suffix(path)))
\* Path.parent: "." for a bare name, the root for a name in the root
Parent(path) ==
    IF LastIndex(path, "/") = 0 THEN "."
    ELSE IF LastIndex(path, "/") = 1 THEN "/"
    ELSE SubSeq(path, 1, LastIndex(path, "/") - 1)

\* dir.glob('**/*' + ext): the paths below dir whose name ends with ext,
\* files and directories alike
Glob(fs, dir, ext) ==
    LET StartsWith(s, head) == Len(s) >= Len(head) /\ SubSeq(s, 1, Len(head)) = head
        EndsWith(s, tail) ==
            Len(s) >= Len(tail) /\ SubSeq(s, Len(s) - Len(tail) + 1, Len(s)) = tail
    IN  {path \in DOMAIN fs : StartsWith(path, dir \o "/") /\ EndsWith(path, ext)}

\* the orders in which a glob may yield the paths of S (the order of the
\* directory entries, which the file system decides)
Orders(S) ==
    {q \in [1..Cardinality(S) -> S] : \A i, j \in 1..Cardinality(S) : q[i] = q[j] => i = j}

\* the files the running tool sees: the file of --file, when it exists, and
\* the other files
FS == IF file_path = "" \/ rule_file = NoFile THEN disk ELSE (file_path :> rule_file) @@ disk

(***************************************************************************)
(* Values of the deployer: responses, search results, outcomes.            *)
(***************************************************************************)
\* a response body that response.json() cannot parse (empty, HTML, ...)
Unparsable == [k |-> "unparsable", v |-> 0]
\* the status recorded for a request that got no response
\* (requests raised a RequestException: timeout, connection error)
ConnectionFailed == 0
Response(status, body) == [status |-> status, body |-> body]
NoResponse == Response(ConnectionFailed, Unparsable)
\* the (success, message) that deploy_rule returns
Outcome(success, message) == [returned |-> TRUE, success |-> success, message |-> message]
NoOutcome == [returned |-> FALSE, success |-> FALSE, message |-> ""]
\* the dictionary that search_rule_by_title returns
SearchResult(exists, rule_id) == [searched |-> TRUE, exists |-> exists, rule_id |-> rule_id]
NotSearched == [searched |-> FALSE, exists |-> FALSE, rule_id |-> Null]
EmptyResults ==
    [total |-> 0, successful |-> 0, failed |-> 0, created |-> 0, updated |-> 0,
     failed_rules |-> <<>>]

\* the deployer does not run
NoDeployment ==
    /\ api_token = ""
    /\ api_url = ""
    /\ rule_files = <<>>
    /\ file_idx = 0
    /\ title = Null
    /\ cleaned_json = Null
    /\ search_result = NotSearched
    /\ next_endpoint = 0
    /\ calls = <<>>
    /\ write_statuses = <<>>
    /\ response = NoResponse
    /\ outcome = NoOutcome
    /\ results = EmptyResults
    /\ applied = 0
    /\ remote = <<>>

(***************************************************************************)
(* Rule documents: the base documents and the edits that vary them.        *)
(***************************************************************************)
BaseComponent ==
    Dict(<<"queryDefinition" :>
             Dict(<<"query" :> Str("type:auth AND failed"),
                    "aggregation" :> Dict(<<"aggregationType" :> Str("COUNT")>>),
                    "filters" :> Dict(<<>>),
                    "groupBy" :> List(<<Str("user")>>)>>),
           "trigger" :>
             Dict(<<"operator" :> Str("GREATER_THAN"),
                    "severityThresholdTiers" :> Dict(<<"HIGH" :> Num(10)>>)>>)>>)

\* a rule as its author writes it: schema-valid, no server-owned field
BaseRule ==
    Dict(<<"title" :> Str("Alert X"),
           "description" :> Str("failed logins"),
           "enabled" :> Bool(TRUE),
           "searchTimeFrameMinutes" :> Num(5),
           "tags" :> List(<<Str("auth")>>),
           "output" :>
             Dict(<<"recipients" :> Dict(<<"emails" :> List(<<Str("soc@example.com")>>)>>),
                    "suppressNotificationsMinutes" :> Num(5)>>),
           "subComponents" :> List([i \in 1..NumSubComponents |-> BaseComponent]),
           "correlations" :>
             Dict(<<"correlationOperators" :> List(<<Str("AND")>>),
                    "joins" :> List(<<>>)>>)>>)

RECURSIVE SetAt(_, _, _)
\* value val with the value at path replaced by new (removed when new is
\* Absent); a path that does not lead anywhere in val leaves it unchanged
SetAt(val, path, new) ==
    IF path = <<>> THEN new
    ELSE LET key == Head(path)
         IN CASE val.k = "dict" ->
                   IF Len(path) = 1
                   THEN IF new = Absent
                        THEN Without(val, {key})
                        ELSE With(val, key, new)
                   ELSE IF key \in DOMAIN val.v
                        THEN MkDict(val.o, [val.v EXCEPT ![key] = SetAt(@, Tail(path), new)])
                        ELSE val
              [] val.k = "list" ->
                   IF \E i \in 1..Len(val.v) : ToString(i - 1) = key
                   THEN LET idx == CHOOSE i \in 1..Len(val.v) : ToString(i - 1) = key
                        IN List([val.v EXCEPT ![idx] = SetAt(@, Tail(path), new)])
                   ELSE val
              [] OTHER -> val

Edit(path, val) == [path |-> path, val |-> val]

RECURSIVE ApplyAll(_, _)
ApplyAll(val, es) ==
    IF es = <<>> THEN val
    ELSE ApplyAll(SetAt(val, Head(es).path, Head(es).val), Tail(es))

\* concatenation of the sequences f[1] .. f[n]
RECURSIVE Flatten(_, _)
Flatten(f, n) == IF n = 0 THEN <<>> ELSE Flatten(f, n - 1) \o f[n]

\* a rule as the remote service exports it: BaseRule plus the server-owned fields
ExportedRule ==
    ApplyAll(BaseRule,
        << Edit(<<"id">>, Str("r-42")),
           Edit(<<"createdAt">>, Num(1700000000)),
           Edit(<<"createdBy">>, Str("alice")),
           Edit(<<"updatedAt">>, Num(1700000001)),
           Edit(<<"updatedBy">>, Str("bob")),
           Edit(<<"output", "recipients", "notificationEndpointIds">>, List(<<Num(7)>>)) >>
        \o [i \in 1..NumSubComponents |->
               Edit(<<"subComponents", ToString(i - 1), "id">>, Str("c-1"))])

(***************************************************************************)
(* deploy_security_rules.py: SecurityRuleDeployer.clean_rule_json          *)
(***************************************************************************)
readonly_fields == <<"id", "createdAt", "createdBy", "updatedAt", "updatedBy">>

\* lines 52-58: drop output.recipients.notificationEndpointIds of the copy
\* at cleaned_data, then return the copy
strip_notification_endpoints(h, cleaned_data) ==
    LET root == h[cleaned_data.v]
    IN  IF ~ In("output", root) THEN Return(h, cleaned_data)
        ELSE LET output == Obj(h, root.v["output"])
             IN  \* if 'recipients' in cleaned_data['output']
                 IF InRaises(output) THEN Raise(h)
                 ELSE IF ~ In("recipients", output) THEN Return(h, cleaned_data)
                 \* cleaned_data['output']['recipients'] on a list or a str
                 ELSE IF output.k # "dict" THEN Raise(h)
                 ELSE LET recipients == Obj(h, output.v["recipients"])
                      IN  IF InRaises(recipients) THEN Raise(h)
                          ELSE IF ~ In("notificationEndpointIds", recipients)
                               THEN Return(h, cleaned_data)
                          \* del on a list or a str with a str index
                          ELSE IF recipients.k # "dict" THEN Raise(h)
                          ELSE Return([h EXCEPT ![output.v["recipients"].v] =
                                           Without(@, {"notificationEndpointIds"})],
                                      cleaned_data)

\* a plausible slip: the pop loop stops after the first field it removes
clean_rule_json_first_only(h, rule_data, fresh) ==
    LET val == Deref(h, rule_data)
        h1 == Alloc(<<fresh>>, val) @@ h
        present == {i \in 1..Len(readonly_fields) : readonly_fields[i] \in DOMAIN val.v}
        first == IF present = {} THEN {}
                 ELSE {readonly_fields[CHOOSE i \in present : \A j \in present : i <= j]}
    IN  strip_notification_endpoints(
            [h1 EXCEPT ![<<fresh>>] = Without(@, first)], Ref(<<fresh>>))

\* clean_rule_json(rule_data) for a mapping rule_data; fresh names the copy
clean_rule_json(h, rule_data, fresh) ==
    LET \* cleaned_data = copy.deepcopy(rule_data)
        h1 == Alloc(<<fresh>>, Deref(h, rule_data)) @@ h
        cleaned_data == Ref(<<fresh>>)
        \* for field in readonly_fields: cleaned_data.pop(field, None)
        h2 == [h1 EXCEPT ![<<fresh>>] = Without(@, Range(readonly_fields))]
    IN  strip_notification_endpoints(h2, cleaned_data)

(***************************************************************************)
(* clean-rules.py: clean_rule                                              *)
(***************************************************************************)
READ_ONLY_FIELDS == <<"id", "createdAt", "createdBy", "updatedAt", "updatedBy">>
SUBCOMPONENT_READONLY_FIELDS == <<"id">>

\* the items a for loop over obj visits, as slots: the elements of a list,
\* the keys of a dict, the characters of a str
Iter(obj) ==
    CASE obj.k = "list" -> obj.v
      [] obj.k = "dict" -> [i \in 1..Len(obj.o) |-> Str(obj.o[i])]
      [] obj.k = "str" -> [i \in 1..Len(obj.v) |-> Str(SubSeq(obj.v, i, i))]
      [] OTHER -> <<>>

RECURSIVE CleanComponent(_, _, _)
\* for field in SUBCOMPONENT_READONLY_FIELDS[j..]:
\*     if field in component: del component[field]
CleanComponent(h, slot, j) ==
    IF j > Len(SUBCOMPONENT_READONLY_FIELDS) THEN Return(h, Null)
    ELSE LET component == Obj(h, slot)
             field == SUBCOMPONENT_READONLY_FIELDS[j]
         IN  IF InRaises(component) THEN Raise(h)
             ELSE IF ~ In(field, component) THEN CleanComponent(h, slot, j + 1)
             ELSE IF component.k # "dict" THEN Raise(h)
             ELSE CleanComponent([h EXCEPT ![slot.v] = Without(@, {field})], slot, j + 1)

RECURSIVE CleanComponents(_, _, _)
\* for component in items[i..]: ...
CleanComponents(h, items, i) ==
    IF i > Len(items) THEN Return(h, Null)
    ELSE LET r == CleanComponent(h, items[i], 1)
         IN  IF r.raised THEN r ELSE CleanComponents(r.heap, items, i + 1)

\* clean_rule(rule) for a mapping rule; fresh names the copy
clean_rule(h, rule, fresh) ==
    LET \* cleaned = rule.copy(): a new dict holding the same children
        h1 == (<<fresh>> :> h[rule.v]) @@ h
        cleaned == Ref(<<fresh>>)
        \* for field in READ_ONLY_FIELDS: if field in cleaned: del cleaned[field]
        h2 == [h1 EXCEPT ![<<fresh>>] = Without(@, Range(READ_ONLY_FIELDS))]
        root == h2[<<fresh>>]
        output == Obj(h2, root.v["output"])
        \* if 'output' in cleaned and 'recipients' in cleaned['output']:
        \*     recipients = cleaned['output']['recipients']
        output_raises ==
            /\ In("output", root)
            /\ \/ InRaises(output)
               \/ In("recipients", output) /\ output.k # "dict"
    IN  IF output_raises THEN Raise(h2)
        ELSE IF ~ In("subComponents", root) THEN Return(h2, cleaned)
        ELSE LET subComponents == Obj(h2, root.v["subComponents"])
                 r == CleanComponents(h2, Iter(subComponents), 1)
             IN  IF InRaises(subComponents) \/ r.raised
                 THEN Raise(IF InRaises(subComponents) THEN h2 ELSE r.heap)
                 ELSE Return(r.heap, cleaned)

\* the result of a call on the files fs0 that raised, and that returned ret
\* and left the files fs1
Raised(fs0) == [raised |-> TRUE, ret |-> FALSE, fs |-> fs0]
Returned(ret, fs1) == [raised |-> FALSE, ret |-> ret, fs |-> fs1]

\* clean_file(input_path, output_path, in_place) with the files of fs;
\* output_path is "" for None; the document of the input file is a mapping
clean_file(fs, input_path, output_path, in_place_arg) ==
    IF input_path \notin DOMAIN fs THEN Returned(FALSE, fs)
    \* open(input_path, 'r') of a directory, and rule = json.load(f)
    ELSE IF fs[input_path] \in {Directory, InvalidJson} THEN Raised(fs)
    ELSE LET r == clean_rule(Alloc(<<"rule">>, fs[input_path]), Ref(<<"rule">>), "cleaned")
             out == IF in_place_arg THEN input_path
                    ELSE IF output_path = ""
                    THEN Stem(input_path) \o "_cleaned" \o Suffix(input_path)
                    ELSE output_path
         IN  IF r.raised THEN Raised(fs)
             \* open(output_path, 'w') needs the directory of the file, and
             \* a path that is no directory
             ELSE IF \/ /\ Parent(out) \notin {".", "/"}
                        /\ (Parent(out) \notin DOMAIN fs \/ fs[Parent(out)] # Directory)
                     \/ (out \in DOMAIN fs /\ fs[out] = Directory)
             THEN Raised(fs)
             ELSE Returned(TRUE, (out :> Deref(r.heap, r.ret)) @@ fs)

\* dir.mkdir(parents=True, exist_ok=True): makes dir and the directories
\* above it that are missing; raises FileExistsError when dir is a file and
\* NotADirectoryError when a path above it is a file, and then makes nothing
MkDirs(fs, dir) ==
    LET made == {dir} \cup {SubSeq(dir, 1, i - 1) :
                               i \in {j \in 2..Len(dir) : SubSeq(dir, j, j) = "/"}}
    IN  IF \E d \in made : d \in DOMAIN fs /\ fs[d] # Directory
        THEN Raised(fs)
        ELSE Returned(TRUE, fs @@ [d \in made |-> Directory])

RECURSIVE clean_each(_, _, _, _, _, _)
\* clean_directory, the loop over files[i..]: st holds the files and
\* fail_count
clean_each(st, input_dir, output_dir, in_place_arg, files, i) ==
    IF i > Len(files) THEN st
    ELSE LET json_file == files[i]
             to_dir == output_dir # "" /\ ~ in_place_arg
             \* out_file = output_dir / json_file.relative_to(input_dir)
             out_file == IF to_dir
                         THEN output_dir \o SubSeq(json_file, Len(input_dir) + 1,
                                                   Len(json_file))
                         ELSE ""
             \* out_file.parent.mkdir(parents=True, exist_ok=True)
             made == IF to_dir THEN MkDirs(st.fs, Parent(out_file))
                     ELSE Returned(TRUE, st.fs)
             \* an exception of the mkdir or of clean_file is caught and
             \* counted (lines 109-111)
             r == IF made.raised THEN made
                  ELSE clean_file(made.fs, json_file, out_file, in_place_arg)
         IN  clean_each([fs |-> r.fs,
                         fail_count |-> st.fail_count
                             + (IF r.raised \/ ~ r.ret THEN 1 ELSE 0)],
                        input_dir, output_dir, in_place_arg, files, i + 1)

\* clean_directory(input_dir, output_dir, in_place) with the files of fs,
\* when input_dir.glob('**/*.json') yields files; output_dir is "" for None
clean_directory(fs, input_dir, output_dir, in_place_arg, files) ==
    IF input_dir \notin DOMAIN fs THEN Returned(FALSE, fs)
    ELSE LET \* output_dir.mkdir(parents=True, exist_ok=True), outside the
             \* try of the loop: its exception leaves clean_directory
             made == IF output_dir # "" /\ ~ in_place_arg
                     THEN MkDirs(fs, output_dir) ELSE Returned(TRUE, fs)
             st == clean_each([fs |-> made.fs, fail_count |-> 0],
                              input_dir, output_dir, in_place_arg, files, 1)
         IN  IF made.raised THEN Raised(fs)
             ELSE Returned(st.fail_count = 0, st.fs)

(***************************************************************************)
(* SpecNormalize: a rule file is edited, loaded (json.load) and handed to  *)
(* one of the two normalizers, whose result is handed to it once more; or  *)
(* clean-rules.py runs on the rule file (--file) or on a directory (--dir) *)
(* and saves what it cleaned.                                              *)
(***************************************************************************)
CleanEdits ==
    << Edit(<<"id">>, Absent),
       Edit(<<"createdAt">>, Absent),
       Edit(<<"updatedBy">>, Str("carol")),
       Edit(<<"output">>, Absent),
       Edit(<<"output">>, Null),
       Edit(<<"output">>, Str("no recipients")),
       Edit(<<"output", "recipients">>, Absent),
       Edit(<<"output", "recipients">>, Null),
       Edit(<<"output", "recipients">>, List(<<Str("notificationEndpointIds")>>)),
       Edit(<<"output", "recipients", "notificationEndpointIds">>, List(<<Num(9)>>)),
       Edit(<<"subComponents">>, Absent),
       Edit(<<"subComponents">>, Null),
       Edit(<<"subComponents">>, List(<<>>)),
       Edit(<<"subComponents">>, Str("none")),
       Edit(<<"subComponents">>, Dict(<<"id" :> Num(1)>>)),
       Edit(<<"subComponents">>, Dict(<<"x" :> Num(2), "id" :> Num(1)>>)),
       \* the file is removed, or overwritten with text that does not parse
       Edit(<<>>, NoFile),
       Edit(<<>>, InvalidJson) >>
    \o Flatten([i \in 1..NumSubComponents |->
                  << Edit(<<"subComponents", ToString(i - 1), "id">>, Absent),
                     Edit(<<"subComponents", ToString(i - 1), "id">>, Str("c-9")),
                     Edit(<<"subComponents", ToString(i - 1)>>, Null),
                     Edit(<<"subComponents", ToString(i - 1)>>, Str("valid")),
                     Edit(<<"subComponents", ToString(i - 1)>>, List(<<Str("id")>>)) >>],
               NumSubComponents)

\* the directories clean-rules.py --dir exported-rules is run on: none, and
\* directories with rule files
ExportDirectories ==
    { EmptyMap,
      ("exported-rules" :> Directory)
          @@ ("exported-rules/a.json" :> ExportedRule)
          @@ ("exported-rules/sub" :> Directory)
          @@ ("exported-rules/sub/b.json" :>
                  Dict(<<"id" :> Num(1), "subComponents" :> Num(3)>>)),
      ("exported-rules" :> Directory)
          @@ ("exported-rules/a.json" :> InvalidJson)
          @@ ("exported-rules/b.json" :> BaseRule)
          @@ ("exported-rules/notes.txt" :> InvalidJson),
      \* a directory whose name the pattern matches
      ("exported-rules" :> Directory)
          @@ ("exported-rules/a.json" :> ExportedRule)
          @@ ("exported-rules/d.json" :> Directory)
          @@ ("exported-rules/d.json/in.json" :> Dict(<<"id" :> Num(5)>>)),
      \* files where the output directories are to be made
      ("exported-rules" :> Directory)
          @@ ("exported-rules/a.json" :> ExportedRule)
          @@ ("exported-rules/sub" :> Directory)
          @@ ("exported-rules/sub/b.json" :> ExportedRule)
          @@ ("cleaned-rules" :> InvalidJson)
          @@ ("deployment-ready" :> Directory)
          @@ ("deployment-ready/sub" :> InvalidJson) }

\* the paths clean-rules.py --file is run on: a file of the working
\* directory and a file of the root directory
CleanedPaths == {"rule.json", "/rule.json"}

InitNormalize ==
    /\ \/ /\ file_path \in CleanedPaths
          /\ rule_file \in {BaseRule, ExportedRule}
          /\ disk = EmptyMap
       \/ /\ file_path = ""
          /\ rule_file = NoFile
          /\ disk \in ExportDirectories
    /\ in_place = FALSE
    /\ edits = 0
    /\ pc = "edit"
    /\ heap = EmptyMap
    /\ ncalls = <<>>
    /\ errors = <<>>
    /\ warnings = <<>>
    /\ valid = TRUE
    /\ strict = FALSE
    /\ exit_code = -1
    /\ NoDeployment

\* the rule file is changed before the tool runs
EditCleanInput ==
    /\ pc = "edit"
    /\ file_path # ""
    /\ edits < MaxEdits
    /\ \E i \in 1..Len(CleanEdits) :
           rule_file' = SetAt(rule_file, CleanEdits[i].path, CleanEdits[i].val)
    /\ edits' = edits + 1
    /\ UNCHANGED <<pc, heap, ncalls, fsVars, valVars, deployVars>>

\* rule = json.load(f), of a file that holds a mapping
LoadRule ==
    /\ pc = "edit"
    /\ rule_file.k = "dict"
    /\ pc' = "loaded"
    /\ heap' = Alloc(<<"rule">>, rule_file)
    /\ UNCHANGED <<rule_file, edits, ncalls, fsVars, valVars, deployVars>>

\* the argument of the next normalizer call: the loaded rule, then the
\* result of the first call
NextArg == IF ncalls = <<>> THEN Ref(<<"rule">>) ELSE ncalls[1].ret
NextFresh == "cleaned" \o ToString(Len(ncalls) + 1)
MayCall(fn) ==
    /\ pc = "loaded"
    /\ Len(ncalls) < 2
    /\ ncalls # <<>> => (ncalls[1].fn = fn /\ ~ ncalls[1].raised)
Called(fn, r) ==
    [fn |-> fn, raised |-> r.raised, ret |-> r.ret, val |-> Deref(r.heap, r.ret)]

\* the two normalizers as functions: clean_rule_json(rule), clean_rule(rule)
\* applied to the loaded document and then to their own result; nothing is
\* saved here (the run of clean-rules.py, with its save, is CleanFile and
\* CleanDirectory)
CallCleanRuleJson ==
    /\ MayCall("clean_rule_json")
    /\ LET r == clean_rule_json(heap, NextArg, NextFresh)
       IN  /\ heap' = r.heap
           /\ ncalls' = Append(ncalls, Called("clean_rule_json", r))
    /\ UNCHANGED <<rule_file, edits, pc, fsVars, valVars, deployVars>>

CallCleanRule ==
    /\ MayCall("clean_rule")
    /\ LET r == clean_rule(heap, NextArg, NextFresh)
       IN  /\ heap' = r.heap
           /\ ncalls' = Append(ncalls, Called("clean_rule", r))
    /\ UNCHANGED <<rule_file, edits, pc, fsVars, valVars, deployVars>>

\* main of clean-rules.py ends: the files it leaves and its exit status; an
\* exception that nothing catches ends the process with status 1
CleanExit(r) ==
    /\ rule_file' = IF file_path \in DOMAIN r.fs THEN r.fs[file_path] ELSE NoFile
    /\ disk' = [path \in (DOMAIN r.fs) \ {file_path} |-> r.fs[path]]
    /\ pc' = IF r.raised THEN "crashed" ELSE "exited"
    /\ exit_code' = IF ~ r.raised /\ r.ret THEN 0 ELSE 1

\* main with --file: success = clean_file(args.file, in_place=args.in_place)
CleanFile ==
    /\ pc = "edit"
    /\ file_path # ""
    /\ in_place' \in BOOLEAN
    /\ CleanExit(clean_file(FS, file_path, "", in_place'))
    /\ UNCHANGED <<file_path, edits, heap, ncalls, errors, warnings, valid, strict,
                   deployVars>>

\* main with --dir exported-rules: output_dir is None with --in-place, else
\* --output or 'cleaned-rules'; success = clean_directory(args.dir,
\* output_dir, args.in_place)
CleanDirectory ==
    /\ pc = "edit"
    /\ file_path = ""
    /\ in_place' \in BOOLEAN
    /\ \E output \in {"", "deployment-ready"},
          files \in Orders(Glob(FS, "exported-rules", ".json")) :
           LET output_dir == IF in_place' THEN ""
                             ELSE IF output # "" THEN output ELSE "cleaned-rules"
           IN  CleanExit(clean_directory(FS, "exported-rules", output_dir, in_place',
                                         files))
    /\ UNCHANGED <<file_path, edits, heap, ncalls, errors, warnings, valid, strict,
                   deployVars>>

NextNormalize ==
    \/ EditCleanInput
    \/ LoadRule
    \/ CallCleanRuleJson
    \/ CallCleanRule
    \/ CleanFile
    \/ CleanDirectory

SpecNormalize == InitNormalize /\ [][NextNormalize]_vars

\* a document holds no server-owned field where such fields occur
NoServerFields(val) ==
    /\ \A i \in 1..Len(readonly_fields) : readonly_fields[i] \notin DOMAIN val.v
    /\ ("subComponents" \in DOMAIN val.v /\ val.v["subComponents"].k = "list") =>
           \A i \in 1..Len(val.v["subComponents"].v) :
               LET c == val.v["subComponents"].v[i]
               IN  c.k = "dict" => "id" \notin DOMAIN c.v
    /\ ("output" \in DOMAIN val.v /\ val.v["output"].k = "dict"
            /\ "recipients" \in DOMAIN val.v["output"].v
            /\ val.v["output"].v["recipients"].k = "dict") =>
           "notificationEndpointIds" \notin DOMAIN val.v["output"].v["recipients"].v

\* C1: whatever the input document, the document either normalizer returns
\* has none of id/createdAt/createdBy/updatedAt/updatedBy at the root, no id
\* in any subComponent and no output.recipients.notificationEndpointIds.
C1_NormalizedHasNoServerFields ==
    \A i \in 1..Len(ncalls) : ~ ncalls[i].raised => NoServerFields(ncalls[i].val)

\* C2: after a normalizer has run, the document it was given (the loaded
\* rule and everything nested in it) is equal to what was loaded.
C2_InputNotMutated ==
    pc = "loaded" => Deref(heap, Ref(<<"rule">>)) = rule_file

\* C3: normalization is idempotent: when a normalizer returns a document,
\* the same normalizer applied to that document returns an equal document.
C3_Idempotent ==
    (Len(ncalls) = 2 /\ ~ ncalls[1].raised) =>
        (~ ncalls[2].raised /\ ncalls[2].val = ncalls[1].val)

\* a normalizer that stripped something from the rule has run twice
C3_Witness ==
    /\ Len(ncalls) = 2
    /\ ncalls[2].fn = "clean_rule_json"
    /\ ~ ncalls[2].raised
    /\ ncalls[1].val # rule_file

(***************************************************************************)
(* validate-rules.py: LogzioRuleValidator.  A frame holds self.errors,     *)
(* self.warnings, the local variable valid of the running method, and      *)
(* whether an exception has been raised (which ends every later step).     *)
(***************************************************************************)
\* a message: the text of its f-string, with {file_path} (or {rules_dir})
\* for path and {} for the value val that it formats
Msg(text, val, path) == [text |-> text, val |-> val, file_path |-> path]
Frame(errs, warns, path) ==
    [errors |-> errs, warnings |-> warns, valid |-> TRUE, raised |-> FALSE,
     file_path |-> path]
\* self.errors.append(msg); valid = False
Err(F, text, val) ==
    [F EXCEPT !.errors = Append(@, Msg(text, val, F.file_path)), !.valid = FALSE]
\* self.warnings.append(msg)
Warn(F, text, val) == [F EXCEPT !.warnings = Append(@, Msg(text, val, F.file_path))]
\* an exception leaves the method
Exc(F) == [F EXCEPT !.raised = TRUE]
\* the frame a called method starts with, and the caller's frame after
\* "if not self.validate_x(...): valid = False"
Enter(F) == [F EXCEPT !.valid = TRUE]
Leave(F, sub) == [sub EXCEPT !.valid = F.valid /\ sub.valid]

\* Python truth value
Truthy(val) ==
    CASE val.k = "str" -> val.v # ""
      [] val.k = "num" -> val.v # 0
      [] val.k = "bool" -> val.v
      [] val.k = "list" -> Len(val.v) > 0
      [] val.k = "dict" -> DOMAIN val.v # {}
      [] OTHER -> FALSE
\* dict.get(key)
Get(obj, key) == IF key \in DOMAIN obj.v THEN obj.v[key] ELSE Null
\* isinstance(val, (int, float)): a bool is an int
IsNumber(val) == val.k \in {"num", "bool"}
NumVal(val) == IF val.k = "bool" THEN (IF val.v THEN 1 ELSE 0) ELSE val.v
\* len(val) raises TypeError on a number, a bool or None
LenRaises(val) == val.k \in {"num", "bool", "null"}
\* val in [list of str]
OneOf(val, names) == val.k = "str" /\ val.v \in names

\* "if key in obj: ... obj[key] ...": the test raises on a non-container,
\* the subscript raises on a list or a str that holds the key
Probe(key, obj) ==
    IF InRaises(obj) THEN "raise"
    ELSE IF ~ In(key, obj) THEN "absent"
    ELSE IF obj.k = "dict" THEN "present" ELSE "raise"

RECURSIVE check_emails(_, _, _)
\* for email in recipients['emails'][i..]: if '@' not in email: warning
check_emails(F, emails, i) ==
    IF i > Len(emails) THEN F
    ELSE IF InRaises(emails[i]) THEN Exc(F)
    ELSE check_emails(IF In("@", emails[i]) THEN F
                      ELSE Warn(F, "Invalid email format: {email} in {file_path}", emails[i]),
                      emails, i + 1)

\* lines 137-143: has_emails, has_endpoints and the warning when neither
output_recipients(F, recipients) ==
    LET emails == Get(recipients, "emails")
        endpoints == Get(recipients, "notificationEndpointIds")
    IN  \* recipients.get on a non-dict
        IF recipients.k # "dict" THEN Exc(F)
        \* has_emails = recipients.get('emails') and len(recipients['emails']) > 0
        ELSE IF Truthy(emails) /\ LenRaises(emails) THEN Exc(F)
        ELSE IF Truthy(endpoints) /\ LenRaises(endpoints) THEN Exc(F)
        ELSE IF ~ Truthy(emails) /\ ~ Truthy(endpoints)
             THEN Warn(F, "No notification recipients (emails or endpoints) configured in {file_path}", Null)
             ELSE F

\* lines 146-153: if 'emails' in recipients
output_emails(F, recipients) ==
    IF F.raised \/ "emails" \notin DOMAIN recipients.v THEN F
    ELSE IF recipients.v["emails"].k # "list"
         THEN Err(F, "'emails' must be a list in {file_path}", Null)
         ELSE check_emails(F, recipients.v["emails"].v, 1)

\* lines 156-165: if 'suppressNotificationsMinutes' in output ... else
output_suppress(F, output) ==
    IF F.raised THEN F
    ELSE IF "suppressNotificationsMinutes" \in DOMAIN output.v
         THEN IF ~ IsNumber(output.v["suppressNotificationsMinutes"])
              THEN Err(F, "'suppressNotificationsMinutes' must be a number in {file_path}", Null)
              ELSE F
         ELSE Warn(F, "Consider adding 'suppressNotificationsMinutes' in {file_path} to avoid alert fatigue", Null)

validate_output(F0, output) ==
    IF Probe("recipients", output) = "raise" THEN Exc(F0)
    ELSE IF Probe("recipients", output) = "absent"
    THEN \* return True
         [Warn(F0, "No 'recipients' in output for {file_path}", Null) EXCEPT !.valid = TRUE]
    ELSE output_suppress(
             output_emails(output_recipients(F0, output.v["recipients"]),
                           output.v["recipients"]),
             output)

valid_types == {"COUNT", "SUM", "AVG", "MAX", "MIN", "UNIQUE_COUNT", "NONE"}

\* lines 196-200
query_definition_query(F, query_def, component_ref) ==
    CASE Probe("query", query_def) = "raise" -> Exc(F)
      [] Probe("query", query_def) = "absent" ->
           Err(F, "Missing 'query' in " \o component_ref \o ".queryDefinition of {file_path}", Null)
      [] OTHER ->
           IF ~ Truthy(query_def.v["query"])
           THEN Warn(F, "Empty query in " \o component_ref \o ".queryDefinition of {file_path}", Null)
           ELSE F

\* lines 203-212
query_definition_aggregation(F, query_def, component_ref) ==
    IF F.raised THEN F
    ELSE CASE Probe("aggregation", query_def) = "raise" -> Exc(F)
           [] Probe("aggregation", query_def) = "absent" -> F
           [] OTHER ->
                LET agg == query_def.v["aggregation"]
                IN  CASE Probe("aggregationType", agg) = "raise" -> Exc(F)
                      [] Probe("aggregationType", agg) = "absent" -> F
                      [] OTHER ->
                           IF ~ OneOf(agg.v["aggregationType"], valid_types)
                           THEN Err(F, "Invalid aggregationType '{}' in " \o component_ref \o " of {file_path}. Must be one of: COUNT, SUM, AVG, MAX, MIN, UNIQUE_COUNT, NONE",
                                    agg.v["aggregationType"])
                           ELSE F

\* lines 215-218
query_definition_filters(F, query_def, component_ref) ==
    IF F.raised THEN F
    ELSE CASE Probe("filters", query_def) = "raise" -> Exc(F)
           [] Probe("filters", query_def) = "absent" -> F
           [] OTHER ->
                IF query_def.v["filters"].k # "dict"
                THEN Err(F, "'filters' must be an object in " \o component_ref \o " of {file_path}", Null)
                ELSE F

\* lines 221-224
query_definition_groupBy(F, query_def, component_ref) ==
    IF F.raised THEN F
    ELSE CASE Probe("groupBy", query_def) = "raise" -> Exc(F)
           [] Probe("groupBy", query_def) = "absent" -> F
           [] OTHER ->
                IF query_def.v["groupBy"].k # "list"
                THEN Err(F, "'groupBy' must be a list in " \o component_ref \o " of {file_path}", Null)
                ELSE F

validate_query_definition(F0, query_def, component_ref) ==
    query_definition_groupBy(
        query_definition_filters(
            query_definition_aggregation(
                query_definition_query(F0, query_def, component_ref),
                query_def, component_ref),
            query_def, component_ref),
        query_def, component_ref)

valid_operators ==
    {"GREATER_THAN", "LESS_THAN", "EQUALS", "NOT_EQUALS",
     "GREATER_THAN_OR_EQUALS", "LESS_THAN_OR_EQUALS"}
valid_severities == {"LOW", "MEDIUM", "HIGH", "SEVERE"}

\* lines 262-272: the key check, then the value check, of one entry
check_tier(F, severity, threshold, component_ref) ==
    LET bad_key == severity \notin valid_severities
        bad_value == ~ IsNumber(threshold)
        key_msg == Msg("Invalid severity '{}' in " \o component_ref
                       \o ".trigger of {file_path}. Must be one of: LOW, MEDIUM, HIGH, SEVERE",
                       Str(severity), F.file_path)
        value_msg == Msg("Threshold for {} must be a number in " \o component_ref
                         \o ".trigger of {file_path}", Str(severity), F.file_path)
    IN  [F EXCEPT !.errors = @ \o (IF bad_key THEN <<key_msg>> ELSE <<>>)
                                \o (IF bad_value THEN <<value_msg>> ELSE <<>>),
                  !.valid = @ /\ ~ bad_key /\ ~ bad_value]

RECURSIVE check_tiers(_, _, _, _, _)
\* for severity, threshold in tiers.items(), from entry i of keys on
check_tiers(F, tiers, keys, i, component_ref) ==
    IF i > Len(keys) THEN F
    ELSE check_tiers(check_tier(F, keys[i], tiers[keys[i]], component_ref),
                     tiers, keys, i + 1, component_ref)

\* lines 233-246
trigger_operator(F, trigger, component_ref) ==
    CASE Probe("operator", trigger) = "raise" -> Exc(F)
      [] Probe("operator", trigger) = "absent" ->
           Err(F, "Missing 'operator' in " \o component_ref \o ".trigger of {file_path}", Null)
      [] OTHER ->
           IF ~ OneOf(trigger.v["operator"], valid_operators)
           THEN Err(F, "Invalid operator '{}' in " \o component_ref
                       \o ".trigger of {file_path}. Must be one of: GREATER_THAN, LESS_THAN, "
                       \o "EQUALS, NOT_EQUALS, GREATER_THAN_OR_EQUALS, LESS_THAN_OR_EQUALS",
                    trigger.v["operator"])
           ELSE F

\* lines 249-272
trigger_tiers(F, trigger, component_ref) ==
    IF F.raised THEN F
    ELSE CASE Probe("severityThresholdTiers", trigger) = "raise" -> Exc(F)
           [] Probe("severityThresholdTiers", trigger) = "absent" ->
                Err(F, "Missing 'severityThresholdTiers' in " \o component_ref
                       \o ".trigger of {file_path}", Null)
           [] OTHER ->
                LET tiers == trigger.v["severityThresholdTiers"]
                IN  IF tiers.k # "dict"
                    THEN Err(F, "'severityThresholdTiers' must be an object in "
                                \o component_ref \o ".trigger of {file_path}", Null)
                    ELSE check_tiers(F, tiers.v, tiers.o, 1, component_ref)

validate_trigger(F0, trigger, component_ref) ==
    trigger_tiers(trigger_operator(F0, trigger, component_ref), trigger, component_ref)

\* lines 175-180
subcomponent_query_definition(F, component, component_ref) ==
    CASE Probe("queryDefinition", component) = "raise" -> Exc(F)
      [] Probe("queryDefinition", component) = "absent" ->
           Err(F, "Missing 'queryDefinition' in " \o component_ref \o " of {file_path}", Null)
      [] OTHER ->
           Leave(F, validate_query_definition(
                        Enter(F), component.v["queryDefinition"], component_ref))

\* lines 182-187
subcomponent_trigger(F, component, component_ref) ==
    IF F.raised THEN F
    ELSE CASE Probe("trigger", component) = "raise" -> Exc(F)
           [] Probe("trigger", component) = "absent" ->
                Err(F, "Missing 'trigger' in " \o component_ref \o " of {file_path}", Null)
           [] OTHER ->
                Leave(F, validate_trigger(Enter(F), component.v["trigger"], component_ref))

\* component_ref = f"subComponents[{idx}]"
ComponentRef(idx) == "subComponents[" \o ToString(idx) \o "]"

validate_subcomponent(F0, component, idx) ==
    subcomponent_trigger(
        subcomponent_query_definition(F0, component, ComponentRef(idx)),
        component, ComponentRef(idx))

RECURSIVE check_correlation_operators(_, _, _)
\* for op in correlations['correlationOperators'][i..]
check_correlation_operators(F, ops, i) ==
    IF i > Len(ops) THEN F
    ELSE check_correlation_operators(
             IF ~ OneOf(ops[i], {"AND", "OR"})
             THEN Err(F, "Invalid correlation operator '{}' in {file_path}. Must be one of: AND, OR", ops[i])
             ELSE F,
             ops, i + 1)

\* lines 280-292
correlations_operators(F, correlations) ==
    CASE Probe("correlationOperators", correlations) = "raise" -> Exc(F)
      [] Probe("correlationOperators", correlations) = "absent" -> F
      [] OTHER ->
           IF correlations.v["correlationOperators"].k # "list"
           THEN Err(F, "'correlationOperators' must be a list in {file_path}", Null)
           ELSE check_correlation_operators(
                    F, correlations.v["correlationOperators"].v, 1)

\* lines 294-297
correlations_joins(F, correlations) ==
    IF F.raised THEN F
    ELSE CASE Probe("joins", correlations) = "raise" -> Exc(F)
           [] Probe("joins", correlations) = "absent" -> F
           [] OTHER ->
                IF correlations.v["joins"].k # "list"
                THEN Err(F, "'joins' must be a list in {file_path}", Null)
                ELSE F

validate_correlations(F0, correlations) ==
    correlations_joins(correlations_operators(F0, correlations), correlations)

required_fields == <<"title", "enabled", "searchTimeFrameMinutes", "subComponents">>

RECURSIVE check_required(_, _, _)
\* lines 51-54: for field in required_fields[i..]: if field not in rule
check_required(F, rule, i) ==
    IF i > Len(required_fields) THEN F
    ELSE check_required(
             IF required_fields[i] \notin DOMAIN rule.v
             THEN Err(F, "Missing required field '" \o required_fields[i] \o "' in {file_path}", Null)
             ELSE F,
             rule, i + 1)

\* lines 57-60
rule_title(F, rule) ==
    IF "title" \in DOMAIN rule.v
       /\ (~ Truthy(rule.v["title"]) \/ rule.v["title"].k # "str")
    THEN Err(F, "'title' must be a non-empty string in {file_path}", Null) ELSE F

\* lines 63-66
rule_enabled(F, rule) ==
    IF "enabled" \in DOMAIN rule.v /\ rule.v["enabled"].k # "bool"
    THEN Err(F, "'enabled' must be a boolean in {file_path}", Null) ELSE F

\* the checks with zero accepted
rule_searchTimeFrameMinutes_zero_accepted(F, rule) ==
    IF "searchTimeFrameMinutes" \notin DOMAIN rule.v THEN F
    ELSE IF ~ IsNumber(rule.v["searchTimeFrameMinutes"])
         THEN Err(F, "'searchTimeFrameMinutes' must be a number in {file_path}", Null)
    ELSE IF NumVal(rule.v["searchTimeFrameMinutes"]) < 0
         THEN Err(F, "'searchTimeFrameMinutes' must be positive in {file_path}", Null)
    ELSE F

\* two checks that do not depend on each other: what is not a number is not
\* a positive number either
rule_searchTimeFrameMinutes_independent(F, rule) ==
    IF "searchTimeFrameMinutes" \notin DOMAIN rule.v THEN F
    ELSE IF ~ IsNumber(rule.v["searchTimeFrameMinutes"])
         THEN Err(Err(F, "'searchTimeFrameMinutes' must be a number in {file_path}", Null),
                  "'searchTimeFrameMinutes' must be positive in {file_path}", Null)
    ELSE IF NumVal(rule.v["searchTimeFrameMinutes"]) <= 0
         THEN Err(F, "'searchTimeFrameMinutes' must be positive in {file_path}", Null)
    ELSE F

\* lines 69-75
rule_searchTimeFrameMinutes(F, rule) ==
    IF "searchTimeFrameMinutes" \notin DOMAIN rule.v THEN F
    ELSE IF ~ IsNumber(rule.v["searchTimeFrameMinutes"])
         THEN Err(F, "'searchTimeFrameMinutes' must be a number in {file_path}", Null)
    ELSE IF NumVal(rule.v["searchTimeFrameMinutes"]) <= 0
         THEN Err(F, "'searchTimeFrameMinutes' must be positive in {file_path}", Null)
    ELSE F

\* lines 78-82
rule_output(F, rule) ==
    IF "output" \in DOMAIN rule.v
    THEN Leave(F, validate_output(Enter(F), rule.v["output"]))
    ELSE Warn(F, "Missing 'output' field in {file_path} - rule won't send notifications", Null)

RECURSIVE check_subcomponents(_, _, _)
\* for idx, component in enumerate(rule['subComponents']), from element i on
check_subcomponents(F, components, i) ==
    IF i > Len(components) \/ F.raised THEN F
    ELSE check_subcomponents(
             Leave(F, validate_subcomponent(Enter(F), components[i], i - 1)),
             components, i + 1)

\* lines 85-95
rule_subComponents(F, rule) ==
    IF F.raised \/ "subComponents" \notin DOMAIN rule.v THEN F
    ELSE IF rule.v["subComponents"].k # "list"
         THEN Err(F, "'subComponents' must be a list in {file_path}", Null)
    ELSE IF Len(rule.v["subComponents"].v) = 0
         THEN Err(F, "'subComponents' cannot be empty in {file_path}", Null)
    ELSE check_subcomponents(F, rule.v["subComponents"].v, 1)

\* lines 98-100
rule_correlations(F, rule) ==
    IF F.raised \/ "correlations" \notin DOMAIN rule.v THEN F
    ELSE Leave(F, validate_correlations(Enter(F), rule.v["correlations"]))

\* lines 103-106
rule_tags(F, rule) ==
    IF F.raised THEN F
    ELSE IF "tags" \in DOMAIN rule.v /\ rule.v["tags"].k # "list"
         THEN Err(F, "'tags' must be a list in {file_path}", Null) ELSE F

\* lines 109-110
recommended_description(F, rule) ==
    IF F.raised THEN F
    ELSE IF "description" \notin DOMAIN rule.v \/ ~ Truthy(rule.v["description"])
         THEN Warn(F, "Missing or empty 'description' in {file_path}", Null) ELSE F

\* lines 112-113
recommended_tags(F, rule) ==
    IF F.raised THEN F
    ELSE IF "tags" \notin DOMAIN rule.v \/ ~ Truthy(rule.v["tags"])
         THEN Warn(F, "No tags defined in {file_path} - consider adding tags for organization", Null)
         ELSE F

RECURSIVE check_readonly(_, _, _)
\* lines 116-122: for field in readonly_fields[i..]: if field in rule: warning
check_readonly(F, rule, i) ==
    IF i > Len(readonly_fields) \/ F.raised THEN F
    ELSE check_readonly(
             IF readonly_fields[i] \in DOMAIN rule.v
             THEN Warn(F, "Read-only field '" \o readonly_fields[i]
                          \o "' found in {file_path} - this will be ignored on creation", Null)
             ELSE F,
             rule, i + 1)

\* validate_security_rule(rule, file_path) for a mapping rule, on a
\* validator whose lists hold errors0 and warnings0
validate_security_rule(errors0, warnings0, rule, path) ==
    check_readonly(
     recommended_tags(
      recommended_description(
       rule_tags(
        rule_correlations(
         rule_subComponents(
          rule_output(
           rule_searchTimeFrameMinutes(
            rule_enabled(
             rule_title(
              check_required(Frame(errors0, warnings0, path), rule, 1),
              rule), rule), rule), rule), rule), rule), rule), rule), rule),
     rule, 1)

\* validate_file(file_path) on a validator whose lists hold errors0 and
\* warnings0, with the files of fs; the document of a .json, .yaml or .yml
\* file is a mapping
validate_file(errors0, warnings0, fs, path) ==
    LET F == Frame(errors0, warnings0, path)
    IN  IF path \notin DOMAIN fs THEN Err(F, "File not found: {file_path}", Null)
        \* open(file_path, 'r') of a directory, in validate_json_syntax and
        \* validate_yaml_syntax, which catch the parser's errors only
        ELSE IF fs[path] = Directory /\ Suffix(path) \in {".json", ".yaml", ".yml"}
        THEN Exc(F)
        ELSE IF Suffix(path) = ".json"
        THEN \* validate_json_syntax, then json.load and validate_security_rule
             IF fs[path] = InvalidJson
             THEN Err(F, "JSON syntax error in {file_path}: {e}", Null)
             ELSE validate_security_rule(errors0, warnings0, fs[path], path)
        ELSE IF Suffix(path) \in {".yaml", ".yml"}
        THEN \* validate_yaml_syntax, then yaml.safe_load and validate_security_rule
             IF fs[path] = InvalidJson
             THEN Err(F, "YAML syntax error in {file_path}: {e}", Null)
             ELSE validate_security_rule(errors0, warnings0, fs[path], path)
        ELSE F

\* self.rules_dir (--rules-dir, by default)
rules_dir == "logzio-rules"

RECURSIVE validate_each(_, _, _, _)
\* validate_all, the loop: if not self.validate_file(file_path): all_valid = False,
\* on files[i..]; F.valid is all_valid
validate_each(F, fs, files, i) ==
    IF i > Len(files) \/ F.raised THEN F
    ELSE LET G == validate_file(F.errors, F.warnings, fs, files[i])
         IN  validate_each([G EXCEPT !.valid = F.valid /\ G.valid,
                                     !.file_path = F.file_path],
                           fs, files, i + 1)

\* validate_all() with the files of fs, when the three globs yield files
validate_all(errors0, warnings0, fs, files) ==
    LET F == Frame(errors0, warnings0, rules_dir)
        G == validate_each(F, fs, files, 1)
    IN  IF rules_dir \notin DOMAIN fs
        THEN Err(F, "Rules directory not found: {rules_dir}", Null)
        ELSE IF ~ G.raised /\ Len(files) = 0
        THEN Warn(G, "No rule files found in {rules_dir}", Null)
        ELSE G

\* for pattern in ['**/*.json', '**/*.yaml', '**/*.yml']:
\*     for file_path in self.rules_dir.glob(pattern)
\* : the sequences of files the two loops may visit
GlobbedRules(fs) ==
    {a \o b \o c : a \in Orders(Glob(fs, rules_dir, ".json")),
                   b \in Orders(Glob(fs, rules_dir, ".yaml")),
                   c \in Orders(Glob(fs, rules_dir, ".yml"))}

(***************************************************************************)
(* SpecValidate: a rule file is edited, then validate-rules.py --file runs *)
(* on it, or validate-rules.py runs on a rules directory: validate_file or *)
(* validate_all, then print_report and the exit status.                    *)
(***************************************************************************)
ComponentEdits(i) ==
    LET c == <<"subComponents", ToString(i - 1)>>
        q == c \o <<"queryDefinition">>
        t == c \o <<"trigger">>
    IN  << Edit(c, Null),
           Edit(q \o <<"query">>, Absent),
           Edit(q \o <<"query">>, Str("")),
           Edit(t \o <<"operator">>, Str("BETWEEN")) >>
        \o IF i > 1 THEN <<>> ELSE
        << Edit(c, Dict(<<>>)),
           Edit(q, Absent),
           Edit(q, List(<<>>)),
           Edit(q, Str("query")),
           Edit(q \o <<"query">>, Num(5)),
           Edit(q \o <<"aggregation">>, Null),
           Edit(q \o <<"aggregation">>, Str("aggregationType")),
           Edit(q \o <<"aggregation", "aggregationType">>, Str("MEDIAN")),
           Edit(q \o <<"filters">>, List(<<>>)),
           Edit(q \o <<"groupBy">>, Str("user")),
           Edit(t, Absent),
           Edit(t, Str("operator")),
           Edit(t \o <<"operator">>, Absent),
           Edit(t \o <<"severityThresholdTiers">>, Absent),
           Edit(t \o <<"severityThresholdTiers">>, List(<<>>)),
           Edit(t \o <<"severityThresholdTiers">>, Dict(<<>>)),
           Edit(t \o <<"severityThresholdTiers">>, Dict(<<"CRITICAL" :> Num(1)>>)),
           Edit(t \o <<"severityThresholdTiers">>, Dict(<<"CRITICAL" :> Str("1")>>)),
           Edit(t \o <<"severityThresholdTiers">>,
                Dict(<<"LOW" :> Bool(TRUE), "HIGH" :> Str("10")>>)) >>

RuleEdits ==
    << Edit(<<"title">>, Absent),
       Edit(<<"title">>, Str("")),
       Edit(<<"title">>, Num(5)),
       Edit(<<"enabled">>, Absent),
       Edit(<<"enabled">>, Str("true")),
       Edit(<<"searchTimeFrameMinutes">>, Absent),
       Edit(<<"searchTimeFrameMinutes">>, Num(0)),
       Edit(<<"searchTimeFrameMinutes">>, Num(-5)),
       Edit(<<"searchTimeFrameMinutes">>, Str("5")),
       Edit(<<"searchTimeFrameMinutes">>, Bool(TRUE)),
       Edit(<<"searchTimeFrameMinutes">>, Bool(FALSE)),
       Edit(<<"description">>, Absent),
       Edit(<<"description">>, Str("")),
       Edit(<<"tags">>, Absent),
       Edit(<<"tags">>, List(<<>>)),
       Edit(<<"tags">>, Str("auth")),
       Edit(<<"id">>, Str("r-42")),
       Edit(<<"output">>, Absent),
       Edit(<<"output">>, Null),
       Edit(<<"output">>, Str("recipients")),
       Edit(<<"output", "recipients">>, Absent),
       Edit(<<"output", "recipients">>, Null),
       Edit(<<"output", "recipients", "emails">>, List(<<>>)),
       Edit(<<"output", "recipients", "emails">>, List(<<Str("soc")>>)),
       Edit(<<"output", "recipients", "emails">>, List(<<Num(5)>>)),
       Edit(<<"output", "recipients", "emails">>, Str("soc@example.com")),
       Edit(<<"output", "recipients", "notificationEndpointIds">>, List(<<Num(7)>>)),
       Edit(<<"output", "suppressNotificationsMinutes">>, Absent),
       Edit(<<"output", "suppressNotificationsMinutes">>, Str("5")),
       Edit(<<"subComponents">>, Absent),
       Edit(<<"subComponents">>, Null),
       Edit(<<"subComponents">>, List(<<>>)),
       Edit(<<"correlations">>, Absent),
       Edit(<<"correlations">>, Null),
       Edit(<<"correlations", "correlationOperators">>, Str("AND")),
       Edit(<<"correlations", "correlationOperators">>, List(<<Str("XOR"), Num(1)>>)),
       Edit(<<"correlations", "joins">>, Null),
       \* the file is removed, or overwritten with text that does not parse
       Edit(<<>>, NoFile),
       Edit(<<>>, InvalidJson) >>
    \o Flatten([i \in 1..NumSubComponents |-> ComponentEdits(i)], NumSubComponents)

\* the paths validate-rules.py --file is run on
ValidatedPaths == {"rule.json", "rule.yaml", "notes.txt"}

\* the rules directories validate-rules.py is run on: none, an empty one,
\* and directories with rule files
RuleDirectories ==
    { EmptyMap,
      "logzio-rules" :> Directory,
      ("logzio-rules" :> Directory)
          @@ ("logzio-rules/a.json" :> SetAt(BaseRule, <<"title">>, Str("")))
          @@ ("logzio-rules/b.json" :> SetAt(BaseRule, <<"enabled">>, Str("yes")))
          @@ ("logzio-rules/c.yaml" :> BaseRule),
      ("logzio-rules" :> Directory)
          @@ ("logzio-rules/a.json" :> BaseRule)
          @@ ("logzio-rules/notes.txt" :> InvalidJson)
          @@ ("logzio-rules/sub" :> Directory)
          @@ ("logzio-rules/sub/d.yml" :> InvalidJson),
      ("logzio-rules" :> Directory)
          @@ ("logzio-rules/a.json" :> SetAt(BaseRule, <<"output">>, Null))
          @@ ("logzio-rules/e.yml" :> SetAt(BaseRule, <<"tags">>, Absent)),
      \* a directory whose name the pattern matches
      ("logzio-rules" :> Directory)
          @@ ("logzio-rules/a.json" :> SetAt(BaseRule, <<"title">>, Str("")))
          @@ ("logzio-rules/d.json" :> Directory) }

InitValidate ==
    /\ \/ /\ file_path \in ValidatedPaths
          /\ rule_file = BaseRule
          /\ disk = EmptyMap
       \/ /\ file_path = ""
          /\ rule_file = NoFile
          /\ disk \in RuleDirectories
    /\ in_place = FALSE
    /\ edits = 0
    /\ pc = "edit"
    /\ heap = EmptyMap
    /\ ncalls = <<>>
    /\ errors = <<>>
    /\ warnings = <<>>
    /\ valid = TRUE
    /\ strict = FALSE
    /\ exit_code = -1
    /\ NoDeployment

\* the rule file is changed before the tool runs
EditRuleFile ==
    /\ pc = "edit"
    /\ file_path # ""
    /\ edits < MaxEdits
    /\ \E i \in 1..Len(RuleEdits) :
           rule_file' = SetAt(rule_file, RuleEdits[i].path, RuleEdits[i].val)
    /\ edits' = edits + 1
    /\ UNCHANGED <<pc, normVars, valVars, deployVars>>

\* main with --file: valid = validator.validate_file(Path(args.file)); an
\* exception it raises is caught nowhere and ends the process with status 1
ValidateFile ==
    /\ pc = "edit"
    /\ file_path # ""
    /\ LET F == validate_file(errors, warnings, FS, file_path)
       IN  /\ errors' = F.errors
           /\ warnings' = F.warnings
           /\ valid' = IF F.raised THEN valid ELSE F.valid
           /\ pc' = IF F.raised THEN "crashed" ELSE "validated"
           /\ exit_code' = IF F.raised THEN 1 ELSE exit_code
    /\ UNCHANGED <<rule_file, edits, normVars, strict, deployVars>>

\* main without --file: valid = validator.validate_all()
ValidateAll ==
    /\ pc = "edit"
    /\ file_path = ""
    /\ \E files \in GlobbedRules(FS) :
           LET F == validate_all(errors, warnings, FS, files)
           IN  /\ errors' = F.errors
               /\ warnings' = F.warnings
               /\ valid' = IF F.raised THEN valid ELSE F.valid
               /\ pc' = IF F.raised THEN "crashed" ELSE "validated"
               /\ exit_code' = IF F.raised THEN 1 ELSE exit_code
    /\ UNCHANGED <<rule_file, edits, normVars, strict, deployVars>>

\* print_report's return value: len(self.errors) == 0
print_report == Len(errors) = 0

\* success = validator.print_report(); --strict; sys.exit(0 if success else 1)
\* (args.strict is read here for the first time: it is drawn here)
ReportAndExit ==
    /\ pc = "validated"
    /\ strict' \in BOOLEAN
    /\ LET success == IF strict' /\ Len(warnings) > 0 THEN FALSE ELSE print_report
       IN  exit_code' = IF success THEN 0 ELSE 1
    /\ pc' = "exited"
    /\ UNCHANGED <<rule_file, edits, normVars, errors, warnings, valid, deployVars>>

NextValidate ==
    \/ EditRuleFile
    \/ ValidateFile
    \/ ValidateAll
    \/ ReportAndExit

SpecValidate == InitValidate /\ [][NextValidate]_vars

\* the value at path in val, Absent when the path leads nowhere
RECURSIVE At(_, _)
At(val, path) ==
    IF path = <<>> THEN val
    ELSE CASE val.k = "dict" ->
                IF Head(path) \in DOMAIN val.v
                THEN At(val.v[Head(path)], Tail(path)) ELSE Absent
           [] val.k = "list" ->
                IF \E i \in 1..Len(val.v) : ToString(i - 1) = Head(path)
                THEN At(val.v[CHOOSE i \in 1..Len(val.v) : ToString(i - 1) = Head(path)],
                        Tail(path))
                ELSE Absent
           [] OTHER -> Absent

\* C4: validate_security_rule never raises, whatever the shape of the
\* values nested in the rule: the validator process never ends in an
\* uncaught exception.
C4_ValidateNeverRaises == pc # "crashed"

\* validate_file handed the rule file to validate_security_rule: the tool ran
\* with --file on a .json, .yaml or .yml file that exists and parses
RuleChecked ==
    /\ file_path # ""
    /\ Suffix(file_path) \in {".json", ".yaml", ".yml"}
    /\ rule_file \notin {NoFile, InvalidJson}

IsText(val) == val.k = "str"
IsJsonNumber(val) == val.k = "num"
IsMapping(val) == val.k = "dict"
IsSequence(val) == val.k = "list"
Opt(val, key, P(_)) == key \in DOMAIN val.v => P(val.v[key])
Req(val, key, P(_)) == key \in DOMAIN val.v /\ P(val.v[key])

\* the data model's schema validity of a subComponent
SchemaValidComponent(c) ==
    /\ IsMapping(c)
    /\ Req(c, "queryDefinition", LAMBDA q :
           /\ IsMapping(q)
           /\ Req(q, "query", IsText)
           /\ Opt(q, "aggregation", LAMBDA a :
                  /\ IsMapping(a)
                  /\ Opt(a, "aggregationType", LAMBDA t : IsText(t) /\ t.v \in valid_types))
           /\ Opt(q, "filters", IsMapping)
           /\ Opt(q, "groupBy", IsSequence))
    /\ Req(c, "trigger", LAMBDA t :
           /\ IsMapping(t)
           /\ Req(t, "operator", LAMBDA o : IsText(o) /\ o.v \in valid_operators)
           /\ Req(t, "severityThresholdTiers", LAMBDA m :
                  /\ IsMapping(m)
                  /\ \A sev \in DOMAIN m.v :
                         sev \in valid_severities /\ IsJsonNumber(m.v[sev])))

\* the data model's schema validity of a rule document (spec section 3):
\* required fields present with their shapes, optional fields with their
\* shapes when present, enumerated values in their closed sets
SchemaValid(d) ==
    /\ Req(d, "title", LAMBDA t : IsText(t) /\ t.v # "")
    /\ Req(d, "enabled", LAMBDA e : e.k = "bool")
    /\ Req(d, "searchTimeFrameMinutes", LAMBDA n : IsJsonNumber(n) /\ n.v > 0)
    /\ Req(d, "subComponents", LAMBDA s :
           /\ IsSequence(s)
           /\ Len(s.v) > 0
           /\ \A i \in 1..Len(s.v) : SchemaValidComponent(s.v[i]))
    /\ Opt(d, "tags", IsSequence)
    /\ Opt(d, "output", LAMBDA o :
           /\ IsMapping(o)
           /\ Opt(o, "suppressNotificationsMinutes", IsJsonNumber)
           /\ Opt(o, "recipients", LAMBDA r : IsMapping(r) /\ Opt(r, "emails", IsSequence)))
    /\ Opt(d, "correlations", LAMBDA c :
           /\ IsMapping(c)
           /\ Opt(c, "joins", IsSequence)
           /\ Opt(c, "correlationOperators", LAMBDA ops :
                  /\ IsSequence(ops)
                  /\ \A i \in 1..Len(ops.v) : OneOf(ops.v[i], {"AND", "OR"})))

\* C5: validation leaves the errors list empty if and only if the document
\* is schema-valid.
C5_NoErrorsIffSchemaValid ==
    (pc = "validated" /\ RuleChecked) =>
        ((Len(errors) = 0) <=> SchemaValid(rule_file))

\* the warning-producing conditions: each replaces a value of the base rule
\* by one that draws a warning
WarningEdits ==
    << Edit(<<"output">>, Absent),
       Edit(<<"output", "recipients">>, Absent),
       Edit(<<"output", "suppressNotificationsMinutes">>, Absent),
       Edit(<<"description">>, Absent),
       Edit(<<"description">>, Str("")),
       Edit(<<"tags">>, Absent),
       Edit(<<"tags">>, List(<<>>)),
       Edit(<<"output", "recipients", "emails">>, List(<<Str("soc")>>)),
       Edit(<<"id">>, Str("r-42")),
       Edit(<<"createdAt">>, Num(1700000000)) >>
    \o [i \in 1..NumSubComponents |->
           Edit(<<"subComponents", ToString(i - 1), "queryDefinition", "query">>, Str(""))]

\* the rule with warning condition e added is validated as the rule is
SameValidityWith(e) ==
    LET G == validate_security_rule(<<>>, <<>>, SetAt(rule_file, e.path, e.val), file_path)
    IN  ~ G.raised /\ G.valid = valid

\* C6: warnings never change the validity outcome: two documents that
\* differ only in a warning-producing condition (here: the validated rule,
\* and the same rule with a value of the base rule replaced by a
\* warning-producing one) get the same validity.
C6_SameValidityUnderWarningConditions ==
    (pc = "validated" /\ RuleChecked) =>
        \A i \in 1..Len(WarningEdits) :
            At(rule_file, WarningEdits[i].path) = At(BaseRule, WarningEdits[i].path)
                => SameValidityWith(WarningEdits[i])

(***************************************************************************)
(* deploy_security_rules.py: SecurityRuleDeployer                          *)
(***************************************************************************)
MaxFiles == 2             \* rule files in the rules directory of a run of SpecBatch, SpecReconcile
MaxResults == 2           \* rules in the listing a search returns
MaxCalls == 1             \* rule files in the rules directory of a run of Spec, FairSpec

RECURSIVE RStripSlash(_)
\* str.rstrip('/')
RStripSlash(s) ==
    IF Len(s) > 0 /\ SubSeq(s, Len(s), Len(s)) = "/"
    THEN RStripSlash(SubSeq(s, 1, Len(s) - 1))
    ELSE s

\* __init__
search_endpoint == RStripSlash(api_url) \o "/security/rules/search"
update_endpoint == RStripSlash(api_url) \o "/security/rules"
\* the candidates in the opposite order
create_endpoints_reversed ==
    << RStripSlash(api_url) \o "/correlation-rules",
       RStripSlash(api_url) \o "/siem/rules",
       RStripSlash(api_url) \o "/security/rules" >>

create_endpoints ==
    << RStripSlash(api_url) \o "/security/rules",
       RStripSlash(api_url) \o "/siem/rules",
       RStripSlash(api_url) \o "/correlation-rules" >>

\* the characters of s from the i-th on, as repr writes them between quote:
\* a backslash, the quote and the newline, carriage return and tab are
\* escaped (other control characters do not occur in the texts modelled)
RECURSIVE Escaped(_, _, _)
Escaped(s, i, quote) ==
    IF i > Len(s) THEN ""
    ELSE LET c == SubSeq(s, i, i)
         IN  (CASE c = "\\" -> "\\\\"
                [] c = quote -> "\\" \o quote
                [] c = "\n" -> "\\n"
                [] c = "\r" -> "\\r"
                [] c = "\t" -> "\\t"
                [] OTHER -> c) \o Escaped(s, i + 1, quote)

\* repr(s) of a str: in single quotes, or in double quotes when s holds a
\* single quote and no double quote
ReprStr(s) ==
    LET quote == IF Contains(s, "'") /\ ~ Contains(s, "\"") THEN "\"" ELSE "'"
    IN  quote \o Escaped(s, 1, quote) \o quote

RECURSIVE PyRepr(_)
RECURSIVE JoinRepr(_, _)
\* repr(val) of a parsed JSON value; a dict in the order of its keys
PyRepr(val) ==
    CASE val.k = "str" -> ReprStr(val.v)
      [] val.k = "num" -> ToString(val.v)
      [] val.k = "bool" -> IF val.v THEN "True" ELSE "False"
      [] val.k = "null" -> "None"
      [] val.k = "list" -> "[" \o JoinRepr([i \in 1..Len(val.v) |-> PyRepr(val.v[i])], 1) \o "]"
      [] val.k = "dict" ->
           "{" \o JoinRepr([i \in 1..Len(val.o) |->
                              ReprStr(val.o[i]) \o ": " \o PyRepr(val.v[val.o[i]])], 1) \o "}"
\* ', '.join(parts[i..])
JoinRepr(parts, i) ==
    IF i > Len(parts) THEN ""
    ELSE IF i = Len(parts) THEN parts[i]
    ELSE parts[i] \o ", " \o JoinRepr(parts, i + 1)

\* f"{val}": str(val) of a parsed JSON value
PyStr(val) == IF val.k = "str" THEN val.v ELSE PyRepr(val)

RECURSIVE PyEq(_, _)
\* Python ==, on parsed JSON values: a bool is the int 0 or 1, lists are
\* equal element by element, dicts key by key whatever the order of the keys
PyEq(a, b) ==
    IF IsNumber(a) /\ IsNumber(b) THEN NumVal(a) = NumVal(b)
    ELSE IF a.k = "list" /\ b.k = "list"
    THEN /\ Len(a.v) = Len(b.v)
         /\ \A i \in 1..Len(a.v) : PyEq(a.v[i], b.v[i])
    ELSE IF a.k = "dict" /\ b.k = "dict"
    THEN /\ DOMAIN a.v = DOMAIN b.v
         /\ \A key \in DOMAIN a.v : PyEq(a.v[key], b.v[key])
    ELSE a = b

\* val[:50] raises TypeError unless val is a str or a list
SliceRaises(val) == val.k \notin {"str", "list"}

\* obj.get(key, default) on a dict
GetOr(obj, key, default) == IF key \in DOMAIN obj.v THEN obj.v[key] ELSE default

\* status_code >= 200 and status_code < 300
Is2xx(status) == status >= 200 /\ status < 300

RECURSIVE scan_results(_, _, _)
\* a scan that passes over an entry it cannot read instead of giving up
scan_results_skips_unreadable(searched_title, listing, i) ==
    IF i > Len(listing) THEN SearchResult(FALSE, Null)
    ELSE LET rule == listing[i]
         IN IF rule.k # "dict" THEN scan_results(searched_title, listing, i + 1)
            ELSE LET rule_title_i == GetOr(rule, "title", Str(""))
                 IN IF i - 1 < 3 /\ (SliceRaises(rule_title_i) \/ SliceRaises(searched_title))
                    THEN scan_results(searched_title, listing, i + 1)
                    ELSE IF PyEq(rule_title_i, searched_title)
                    THEN SearchResult(TRUE, Get(rule, "id"))
                    ELSE scan_results(searched_title, listing, i + 1)

\* lines 95-108: for i, rule in enumerate(results): ... ; i counts from 1 here.
\* An exception (AttributeError of .get on a non-dict, TypeError of [:50]) is
\* caught at line 169 and gives exists False; so does the end of the loop.
scan_results(searched_title, listing, i) ==
    IF i > Len(listing) THEN SearchResult(FALSE, Null)
    ELSE LET rule == listing[i]
         IN IF rule.k # "dict" THEN SearchResult(FALSE, Null)
            ELSE LET rule_title_i == GetOr(rule, "title", Str(""))
                 IN IF i - 1 < 3 /\ (SliceRaises(rule_title_i) \/ SliceRaises(searched_title))
                    THEN SearchResult(FALSE, Null)
                    ELSE IF PyEq(rule_title_i, searched_title)
                    THEN SearchResult(TRUE, Get(rule, "id"))
                    ELSE scan_results(searched_title, listing, i + 1)

\* search_rule_by_title(title), given the response to its request
search_rule_by_title(searched_title, resp) ==
    IF resp.status = ConnectionFailed THEN SearchResult(FALSE, Null)
    ELSE IF resp.status = 200
    THEN LET data == resp.body
         IN IF data = Unparsable THEN SearchResult(FALSE, Null)
            ELSE IF data.k = "dict" /\ "results" \in DOMAIN data.v
            THEN IF data.v["results"].k # "list" THEN SearchResult(FALSE, Null)
                 ELSE scan_results(searched_title, data.v["results"].v, 1)
            ELSE SearchResult(FALSE, Null)
    ELSE SearchResult(FALSE, Null)

\* the value of the first of the three keys that the body has, empty or not
error_message_first_present(error_data) ==
    IF In("message", error_data) THEN Get(error_data, "message")
    ELSE IF In("error", error_data) THEN Get(error_data, "error")
    ELSE IF In("errorMessage", error_data) THEN Get(error_data, "errorMessage")
    ELSE Str("No error message provided")

\* error_data.get('message') or error_data.get('error') or
\* error_data.get('errorMessage') or 'No error message provided'
error_message(error_data) ==
    IF Truthy(Get(error_data, "message")) THEN Get(error_data, "message")
    ELSE IF Truthy(Get(error_data, "error")) THEN Get(error_data, "error")
    ELSE IF Truthy(Get(error_data, "errorMessage")) THEN Get(error_data, "errorMessage")
    ELSE Str("No error message provided")

\* an update that reports success whatever the response
_update_rule_always_updated(rule_id, resp) ==
    Outcome(TRUE, "Updated successfully (ID: " \o PyStr(rule_id) \o ")")

\* _update_rule(rule_id, rule_data, rule_name), given the response to its PUT
_update_rule(rule_id, resp) ==
    IF resp.status = ConnectionFailed
    THEN Outcome(FALSE, "Update request failed: {str(e)}")
    ELSE IF Is2xx(resp.status)
    THEN Outcome(TRUE, "Updated successfully (ID: " \o PyStr(rule_id) \o ")")
    ELSE IF resp.body = Unparsable \/ resp.body.k # "dict"
    THEN Outcome(FALSE, "Update failed with HTTP " \o ToString(resp.status))
    ELSE Outcome(FALSE, "Update failed: " \o PyStr(error_message(resp.body)))

\* a success message that reports the id 'unknown' for every body without an id
created_message_unknown(endpoint, body) ==
    "Created successfully at " \o endpoint \o " (ID: "
        \o (IF body # Unparsable /\ body.k = "dict" /\ "id" \in DOMAIN body.v
            THEN PyStr(body.v["id"]) ELSE "unknown") \o ")"

\* lines 307-312: the message of a successful create
created_message(endpoint, body) ==
    IF body = Unparsable \/ body.k # "dict"
    THEN "Created successfully at " \o endpoint
    ELSE "Created successfully at " \o endpoint
             \o " (ID: " \o PyStr(GetOr(body, "id", Str("unknown"))) \o ")"

\* lines 291-340: one iteration of the loop of _create_rule, given the
\* response to its POST: the outcome returned, or NoOutcome to go on
create_attempt(endpoint, resp) ==
    IF resp.status = ConnectionFailed THEN NoOutcome
    ELSE IF Is2xx(resp.status) THEN Outcome(TRUE, created_message(endpoint, resp.body))
    ELSE NoOutcome

\* the loop ends without a return statement
create_exhausted_returns_nothing == NoOutcome

\* a failure message that reports the status of the request before the last
create_exhausted_with_status ==
    Outcome(FALSE, "Failed to create at any endpoint: HTTP "
                       \o ToString(write_statuses[Len(write_statuses)]))

\* lines 342-356: what _create_rule returns after the loop
create_exhausted == Outcome(FALSE, "Failed to create at any endpoint")

\* the results with a failure put in front of the failures recorded so far
tally_newest_failure_first(res, file, success, message) ==
    IF success
    THEN IF Contains(message, "Updated") \/ Contains(message, "updated")
         THEN [res EXCEPT !.successful = @ + 1, !.updated = @ + 1]
         ELSE [res EXCEPT !.successful = @ + 1, !.created = @ + 1]
    ELSE [res EXCEPT !.failed = @ + 1,
                     !.failed_rules = <<[file |-> file, error |-> message]>> \o @]

\* deploy_all_rules lines 410-423: the results after one deploy_rule call
tally(res, file, success, message) ==
    IF success
    THEN IF Contains(message, "Updated") \/ Contains(message, "updated")
         THEN [res EXCEPT !.successful = @ + 1, !.updated = @ + 1]
         ELSE [res EXCEPT !.successful = @ + 1, !.created = @ + 1]
    ELSE [res EXCEPT !.failed = @ + 1,
                     !.failed_rules = Append(@, [file |-> file, error |-> message])]

(***************************************************************************)
(* Spec: main() of deploy_security_rules.py deploys the files of a rules   *)
(* directory of at most MaxCalls files one after another.  The content of  *)
(* a file is drawn when deploy_rule opens it; the remote service answers   *)
(* each request with any of the listed responses.                          *)
(***************************************************************************)
\* the contents a rule file may have
RuleFileContents ==
    { ExportedRule,
      SetAt(ExportedRule, <<"title">>, Absent),
      SetAt(ExportedRule, <<"title">>, Num(5)),
      SetAt(BaseRule, <<"output">>, Null),
      List(<<>>),
      InvalidJson,
      \* a directory whose name the pattern matches
      Directory }

\* the rules a search response may list
RemoteRules ==
    { Dict(<<"id" :> Str("r-42"), "title" :> Str("Alert X")>>),
      Dict(<<"id" :> Str("r-7"), "title" :> Str("Other rule")>>),
      Dict(<<"title" :> Str("Alert X")>>),
      Dict(<<"id" :> Str("r-8"), "title" :> Str("alert x")>>),
      Dict(<<"id" :> Str("r-9"), "title" :> Null>>) }

Listings == UNION {[1..n -> RemoteRules] : n \in 0..MaxResults}

SearchResponses ==
    {Response(200, Dict(<<"total" :> Num(Len(l)), "results" :> List(l)>>)) : l \in Listings}
    \cup { Response(200, Dict(<<"total" :> Num(0)>>)),
           Response(200, Dict(<<"results" :> Null>>)),
           Response(200, List(<<>>)),
           Response(200, Unparsable),
           Response(404, Unparsable),
           Response(500, Str("internal error")),
           NoResponse }

ErrorBodies ==
    { Dict(<<"message" :> Str("bad rule")>>),
      Dict(<<"message" :> Str(""), "error" :> Str("denied")>>),
      Dict(<<"errorMessage" :> List(<<Str("it's"),
                                      Dict(<<"LOW" :> Num(1), "HIGH" :> Num(2)>>)>>)>>),
      Dict(<<>>),
      List(<<>>),
      Unparsable }

UpdateResponses ==
    { Response(200, Dict(<<"id" :> Str("r-42")>>)), Response(204, Unparsable),
      Response(404, Unparsable), Response(500, Str("internal error")), NoResponse }
    \cup {Response(400, b) : b \in ErrorBodies}

CreateResponses ==
    { Response(201, Dict(<<"id" :> Str("r-99")>>)),
      Response(201, Dict(<<"id" :> Str("updated-7")>>)),
      Response(201, Dict(<<"id" :> Num(99)>>)),
      Response(200, Dict(<<"id" :> Null>>)),
      Response(201, Dict(<<"title" :> Str("Alert X")>>)),
      Response(200, List(<<>>)),
      Response(204, Unparsable),
      Response(400, Dict(<<"message" :> Str("bad rule")>>)),
      Response(404, Unparsable),
      Response(500, Str("internal error")),
      NoResponse }

\* the body of the search request
SearchQuery ==
    Dict(<<"filter" :> Dict(<<"enabledState" :> List(<<Bool(TRUE)>>)>>),
           "pagination" :> Dict(<<"pageNumber" :> Num(1), "pageSize" :> Num(1000)>>)>>)

Call(method, url, json) == [method |-> method, url |-> url, json |-> json]

\* main lines 432-433: the values of LOGZIO_API_TOKEN and LOGZIO_API_URL main
\* runs with, "" for a variable that is unset or empty
Environments == {"t0k3n", ""} \X {"https://api.logz.io/", ""}

\* main line 435 and deploy_all_rules line 382,
\* rule_files = list(rules_path.glob('*.json')): the lists the glob gives in
\* the runs of main on a rules directory with at most max rule files
\* (rule1.json, rule2.json, ...).  The paths start with the rules directory
\* (RULES_DIRECTORY: the default, or the working directory, which Path
\* leaves out of the paths); the glob is not sorted: their order is the order
\* of the directory entries, which the file system decides, so every order
\* is a listing.
GlobbedFiles(max) ==
    LET PathIn(dir, name) == IF dir = "." THEN name ELSE dir \o "/" \o name
    IN  UNION {{[i \in 1..n |-> PathIn(dir, "rule" \o ToString(order[i]) \o ".json")] :
                   order \in Orders(1..n), dir \in {"logzio-rules/security", "."}} :
               n \in 0..max}

\* main before it reads its environment, with at most max files in the
\* rules directory
InitBatch(max) ==
    /\ \E env \in Environments : api_token = env[1] /\ api_url = env[2]
    /\ rule_files \in GlobbedFiles(max)
    /\ pc = "main"
    /\ rule_file = Null
    /\ file_path = ""
    /\ disk = EmptyMap
    /\ in_place = FALSE
    /\ edits = 0
    /\ heap = EmptyMap
    /\ ncalls = <<>>
    /\ errors = <<>>
    /\ warnings = <<>>
    /\ valid = TRUE
    /\ strict = FALSE
    /\ exit_code = -1
    /\ file_idx = 0
    /\ title = Null
    /\ cleaned_json = Null
    /\ search_result = NotSearched
    /\ next_endpoint = 0
    /\ calls = <<>>
    /\ write_statuses = <<>>
    /\ response = NoResponse
    /\ outcome = NoOutcome
    /\ results = EmptyResults
    /\ applied = 0
    /\ remote = <<>>

Init == InitBatch(MaxCalls)

\* whether the remote service carried out the write request it answered with
\* resp: it did when it answered 2xx and did not when it answered another
\* status; a request that ended in a RequestException (the timeout of 30 s, a
\* lost connection) may have been carried out or not
Effects(resp) == IF resp.status = ConnectionFailed THEN BOOLEAN ELSE {Is2xx(resp.status)}

\* main lines 437-443: without a token or without a URL main prints an error
\* and exits with status 1, before it creates a deployer
MissingConfiguration ==
    /\ pc = "main"
    /\ api_token = "" \/ api_url = ""
    /\ exit_code' = 1
    /\ pc' = "exited"
    /\ UNCHANGED <<rule_file, edits, normVars, errors, warnings, valid, strict,
                   deployVars>>

\* main lines 446-447, deploy_all_rules lines 368-407: list the rule files
DeployAllRules ==
    /\ pc = "main"
    /\ api_token # "" /\ api_url # ""
    /\ results' = [EmptyResults EXCEPT !.total = Len(rule_files)]
    /\ IF rule_files = <<>>
       THEN pc' = "summary" /\ file_idx' = 0
       ELSE pc' = "deploy_rule" /\ file_idx' = 1
    /\ UNCHANGED <<rule_file, edits, normVars, valVars, deployEnv, title,
                   cleaned_json, search_result, next_endpoint, calls, write_statuses,
                   response, outcome, applied, remote>>

\* a loop that leaves the batch at the first failure
Finish_stops_at_failure(o) ==
    /\ outcome' = o
    /\ results' = tally(results, Name(rule_files[file_idx]), o.success, o.message)
    /\ IF file_idx < Len(rule_files) /\ o.success
       THEN file_idx' = file_idx + 1 /\ pc' = "deploy_rule"
       ELSE file_idx' = file_idx /\ pc' = "summary"

\* deploy_rule returns o: deploy_all_rules lines 410-423 record it and the
\* loop goes on with the next file
Finish(o) ==
    /\ outcome' = o
    /\ results' = tally(results, Name(rule_files[file_idx]), o.success, o.message)
    /\ IF file_idx < Len(rule_files)
       THEN file_idx' = file_idx + 1 /\ pc' = "deploy_rule"
       ELSE file_idx' = file_idx /\ pc' = "summary"

\* deploy_rule lines 183-201: load the file, whose content is one of
\* contents, take the title, clean the rule
DeployRuleFrom(contents) ==
    /\ pc = "deploy_rule"
    /\ \/ \* json.load raises JSONDecodeError
          /\ InvalidJson \in contents
          /\ rule_file' = InvalidJson
          /\ Finish(Outcome(FALSE, "Invalid JSON in " \o rule_files[file_idx]
                                       \o ": {str(e)}"))
          /\ title' = Null
          /\ cleaned_json' = Null
       \/ \E content \in contents \ {InvalidJson} :
              LET rule_name == Stem(rule_files[file_idx])
                  r == clean_rule_json(Alloc(<<"rule">>, content), Ref(<<"rule">>),
                                       "cleaned")
              IN  /\ rule_file' = content
                  \* open(rule_file) of a directory, rule_data.get of a
                  \* document that is no mapping, clean_rule_json
                  /\ IF content.k # "dict" \/ r.raised
                     THEN /\ Finish(Outcome(FALSE, "Unexpected error processing "
                                                       \o rule_name \o ": {str(e)}"))
                          /\ title' = Null
                          /\ cleaned_json' = Null
                     ELSE /\ title' = GetOr(content, "title", Str(rule_name))
                          /\ cleaned_json' = Deref(r.heap, r.ret)
                          /\ outcome' = NoOutcome
                          /\ pc' = "search_rule_by_title"
                          /\ UNCHANGED <<file_idx, results>>
    /\ search_result' = NotSearched
    /\ next_endpoint' = 1
    /\ calls' = <<>>
    /\ write_statuses' = <<>>
    /\ response' = NoResponse
    /\ applied' = 0
    /\ UNCHANGED <<edits, normVars, valVars, deployEnv, remote>>

DeployRule == DeployRuleFrom(RuleFileContents)

\* deploy_rule lines 203-211: search_rule_by_title, answered by one of
\* responses, then the choice between update and create
SearchRuleWith(responses) ==
    /\ pc = "search_rule_by_title"
    /\ \E resp \in responses :
           /\ response' = resp
           /\ calls' = Append(calls, Call("POST", search_endpoint, SearchQuery))
           /\ search_result' = search_rule_by_title(title, resp)
    /\ pc' = IF search_result'.exists THEN "_update_rule" ELSE "_create_rule"
    /\ UNCHANGED <<rule_file, edits, normVars, valVars, deployEnv, file_idx,
                   title, cleaned_json, next_endpoint, write_statuses, outcome, results,
                   applied, remote>>

SearchRule == SearchRuleWith(SearchResponses)

\* _update_rule: one PUT, answered by one of responses; the response decides
\* the outcome
UpdateRuleWith(responses) ==
    /\ pc = "_update_rule"
    /\ \E resp \in responses :
           /\ response' = resp
           /\ calls' = Append(calls,
                  Call("PUT", update_endpoint \o "/" \o PyStr(search_result.rule_id),
                       cleaned_json))
           /\ write_statuses' = Append(write_statuses, resp.status)
           /\ \E effect \in Effects(resp) : applied' = applied + (IF effect THEN 1 ELSE 0)
           /\ Finish(_update_rule(search_result.rule_id, resp))
    /\ UNCHANGED <<rule_file, edits, normVars, valVars, deployEnv, title,
                   cleaned_json, search_result, next_endpoint>>

UpdateRule == UpdateRuleWith(UpdateResponses) /\ UNCHANGED remote

\* a create that posts the rule file as it was loaded
CreateRuleWith_raw_payload(responses) ==
    /\ pc = "_create_rule"
    /\ \E resp \in responses :
           LET endpoint == create_endpoints[next_endpoint]
               o == create_attempt(endpoint, resp)
           IN  /\ response' = resp
               /\ calls' = Append(calls, Call("POST", endpoint, rule_file))
               /\ write_statuses' = Append(write_statuses, resp.status)
               /\ \E effect \in Effects(resp) :
                      applied' = applied + (IF effect THEN 1 ELSE 0)
               /\ IF o.returned
                  THEN Finish(o) /\ UNCHANGED next_endpoint
                  ELSE IF next_endpoint < Len(create_endpoints)
                  THEN /\ next_endpoint' = next_endpoint + 1
                       /\ UNCHANGED <<pc, file_idx, outcome, results>>
                  ELSE Finish(create_exhausted) /\ UNCHANGED next_endpoint
    /\ UNCHANGED <<rule_file, edits, normVars, valVars, deployEnv, title,
                   cleaned_json, search_result>>

\* _create_rule: one iteration of the loop over create_endpoints, answered by
\* one of responses, and the return after the loop when it was the last
CreateRuleWith(responses) ==
    /\ pc = "_create_rule"
    /\ \E resp \in responses :
           LET endpoint == create_endpoints[next_endpoint]
               o == create_attempt(endpoint, resp)
           IN  /\ response' = resp
               /\ calls' = Append(calls, Call("POST", endpoint, cleaned_json))
               /\ write_statuses' = Append(write_statuses, resp.status)
               /\ \E effect \in Effects(resp) :
                      applied' = applied + (IF effect THEN 1 ELSE 0)
               /\ IF o.returned
                  THEN Finish(o) /\ UNCHANGED next_endpoint
                  ELSE IF next_endpoint < Len(create_endpoints)
                  THEN /\ next_endpoint' = next_endpoint + 1
                       /\ UNCHANGED <<pc, file_idx, outcome, results>>
                  ELSE Finish(create_exhausted) /\ UNCHANGED next_endpoint
    /\ UNCHANGED <<rule_file, edits, normVars, valVars, deployEnv, title,
                   cleaned_json, search_result>>

CreateRule == CreateRuleWith(CreateResponses) /\ UNCHANGED remote

\* a main that exits 0 whatever the results are
MainExit_always_succeeds ==
    /\ pc = "summary"
    /\ exit_code' = 0
    /\ pc' = "exited"
    /\ rule_file' = Null
    /\ title' = Null
    /\ cleaned_json' = Null
    /\ search_result' = NotSearched
    /\ next_endpoint' = 0
    /\ calls' = <<>>
    /\ write_statuses' = <<>>
    /\ response' = NoResponse
    /\ outcome' = NoOutcome
    /\ applied' = 0
    /\ UNCHANGED <<edits, normVars, errors, warnings, valid, strict, deployEnv,
                   file_idx, results, remote>>

\* main lines 449-473: print the summary and exit; of the deployer only the
\* printed results and the exit status remain
MainExit ==
    /\ pc = "summary"
    /\ exit_code' = IF results.failed > 0 THEN 1 ELSE 0
    /\ pc' = "exited"
    /\ rule_file' = Null
    /\ title' = Null
    /\ cleaned_json' = Null
    /\ search_result' = NotSearched
    /\ next_endpoint' = 0
    /\ calls' = <<>>
    /\ write_statuses' = <<>>
    /\ response' = NoResponse
    /\ outcome' = NoOutcome
    /\ applied' = 0
    /\ UNCHANGED <<edits, normVars, errors, warnings, valid, strict, deployEnv,
                   file_idx, results, remote>>

Next ==
    \/ MissingConfiguration
    \/ DeployAllRules
    \/ DeployRule
    \/ SearchRule
    \/ UpdateRule
    \/ CreateRule
    \/ MainExit

Spec == Init /\ [][Next]_vars

(***************************************************************************)
(* Properties of the deployer.                                             *)
(***************************************************************************)
\* the create candidates, in the order __init__ declares them
DeclaredCandidates ==
    << "https://api.logz.io/security/rules",
       "https://api.logz.io/siem/rules",
       "https://api.logz.io/correlation-rules" >>

IsCreateCall(c) == c.method = "POST" /\ c.url \in Range(DeclaredCandidates)
IsUpdateCall(c) == c.method = "PUT"
\* the create and the update requests issued for the current file
CreateCalls == SelectSeq(calls, IsCreateCall)
UpdateCalls == SelectSeq(calls, IsUpdateCall)

\* C7: when the search reports exists = true with remote id r, deploy_rule
\* issues no create call, and exactly one update call, to the update target
\* built from r, whatever the response to it: a 2xx response gives the
\* outcome "Updated successfully" with r, any other response or a transport
\* failure gives a failed outcome, and nothing is retried.
C7_ExistingRuleUpdatedOnce ==
    (search_result.searched /\ search_result.exists) =>
        /\ CreateCalls = <<>>
        /\ pc = "_update_rule" => (UpdateCalls = <<>> /\ ~ outcome.returned)
        /\ pc # "_update_rule" =>
               /\ Len(UpdateCalls) = 1
               /\ Len(calls) = 2
               /\ calls[2].method = "PUT"
               /\ calls[2].url = "https://api.logz.io/security/rules/"
                                     \o PyStr(search_result.rule_id)
               /\ outcome.returned
               /\ Is2xx(response.status) =>
                      /\ outcome.success
                      /\ outcome.message = "Updated successfully (ID: "
                                               \o PyStr(search_result.rule_id) \o ")"
               /\ ~ Is2xx(response.status) =>
                      /\ ~ outcome.success
                      /\ results.failed_rules[Len(results.failed_rules)].error
                             = outcome.message

\* the rule was found as r-42, the update was refused with 500, and
\* deploy_rule returned a failure after that single PUT
C7_Witness ==
    /\ search_result.exists
    /\ search_result.rule_id = Str("r-42")
    /\ pc # "_update_rule"
    /\ Len(UpdateCalls) = 1
    /\ response.status = 500
    /\ outcome.returned
    /\ ~ outcome.success

\* message says the rule was created at endpoint
CreatedAt(message, endpoint) ==
    LET prefix == "Created successfully at " \o endpoint
    IN  /\ Len(message) >= Len(prefix)
        /\ SubSeq(message, 1, Len(prefix)) = prefix
        /\ Len(message) > Len(prefix) =>
               SubSeq(message, Len(prefix) + 1, Len(prefix) + 1) = " "

\* C8: the create calls go to the candidate endpoints in their declared
\* order, each at most once; only the last of them can have been answered
\* 2xx, and then deploy_rule has returned "Created successfully" at that
\* endpoint; after a 404, another non-2xx or a transport failure at a
\* candidate that is not the last, the flow is at the next candidate.
C8_CandidatesInOrderFirstSuccessStops ==
    LET n == Len(CreateCalls)
    IN  /\ n <= Len(DeclaredCandidates)
        /\ \A i \in 1..n : CreateCalls[i].url = DeclaredCandidates[i]
        /\ n > 0 =>
               /\ Len(write_statuses) = n
               /\ \A i \in 1..(n - 1) : ~ Is2xx(write_statuses[i])
               /\ Is2xx(write_statuses[n]) =>
                      /\ pc # "_create_rule"
                      /\ outcome.returned
                      /\ outcome.success
                      /\ CreatedAt(outcome.message, DeclaredCandidates[n])
               /\ (~ Is2xx(write_statuses[n]) /\ n < Len(DeclaredCandidates)) =>
                      /\ pc = "_create_rule"
                      /\ next_endpoint = n + 1
                      /\ ~ outcome.returned

\* the first candidate answered 404, the second 2xx: the rule is created at
\* the second and the third was never called
C8_Witness ==
    /\ Len(CreateCalls) = 2
    /\ write_statuses[1] = 404
    /\ Is2xx(write_statuses[2])
    /\ outcome.returned
    /\ CreatedAt(outcome.message, "https://api.logz.io/siem/rules")

\* C9: when every candidate endpoint was tried and none answered 2xx,
\* deploy_rule returns a failure whose message is "Failed to create at any
\* endpoint", whatever the failures of the endpoints were, and that message
\* is what the results record.
C9_ExhaustedCandidatesSameMessage ==
    (Len(CreateCalls) = Len(DeclaredCandidates)
         /\ ~ Is2xx(write_statuses[Len(write_statuses)])) =>
        /\ outcome = Outcome(FALSE, "Failed to create at any endpoint")
        /\ results.failed_rules[Len(results.failed_rules)].error
               = "Failed to create at any endpoint"

\* three different failures (404, 500, no response) exhausted the candidates
C9_Witness ==
    /\ Len(CreateCalls) = 3
    /\ write_statuses = <<404, 500, ConnectionFailed>>
    /\ outcome.returned
    /\ ~ outcome.success

\* a create call was answered 2xx and deploy_rule has returned
CreateSucceeded ==
    /\ CreateCalls # <<>>
    /\ Is2xx(write_statuses[Len(write_statuses)])
    /\ outcome.returned

\* the response body is a JSON object
BodyIsObject == response.body # Unparsable /\ response.body.k = "dict"

\* C10 as stated: on a 2xx create response the outcome is a success that
\* records the id of the response body when the body supplies one and
\* "unknown" in every other case (no id, not a JSON object, unparsable).
C10_IdOrUnknown ==
    CreateSucceeded =>
        /\ outcome.success
        /\ outcome.message =
               "Created successfully at " \o CreateCalls[Len(CreateCalls)].url \o " (ID: "
                   \o (IF BodyIsObject /\ "id" \in DOMAIN response.body.v
                       THEN PyStr(response.body.v["id"]) ELSE "unknown") \o ")"

\* C10 amended: on a 2xx create response the outcome is a success; its
\* message records the id of the response body when the body is a JSON
\* object with an id key, "unknown" when it is a JSON object without an id
\* key, and no id at all when the body is not a JSON object or is unparsable.
C10_IdUnknownOrNoId ==
    CreateSucceeded =>
        /\ outcome.success
        /\ outcome.message =
               IF BodyIsObject
               THEN "Created successfully at " \o CreateCalls[Len(CreateCalls)].url
                        \o " (ID: "
                        \o (IF "id" \in DOMAIN response.body.v
                            THEN PyStr(response.body.v["id"]) ELSE "unknown") \o ")"
               ELSE "Created successfully at " \o CreateCalls[Len(CreateCalls)].url

\* a create was answered 2xx with a body that is not a JSON object: the
\* rule counts as created and the message carries no id
C10_Witness ==
    /\ CreateSucceeded
    /\ ~ BodyIsObject
    /\ outcome.success
    /\ ~ Contains(outcome.message, "(ID:")
    /\ results.created = 1

\* C11: for one document and one deploy_rule call, at most one write request
\* takes effect on the remote service, whatever the search, update and
\* create responses are, a create that times out on the client after the
\* remote carried it out included.
C11_AtMostOneRemoteMutation == applied <= 1

(***************************************************************************)
(* SpecReconcile: main() of deploy_security_rules.py against a remote      *)
(* service that stores the rules and answers every request successfully   *)
(* and consistently with what it stores.                                   *)
(***************************************************************************)
\* the contents a rule file may have: rules with a title and an enabled flag
TitledRuleContents ==
    { ExportedRule,
      SetAt(ExportedRule, <<"enabled">>, Bool(FALSE)),
      SetAt(ExportedRule, <<"description">>, Str("tuned")),
      SetAt(ExportedRule, <<"title">>, Str("Other rule")) }

\* the rule the remote service stores under id for the payload rule_data
StoredRule(id, rule_data) ==
    [id |-> id, title |-> Get(rule_data, "title"), enabled |-> Get(rule_data, "enabled")]

\* what the remote service stores before the deployment starts
InitialRemotes ==
    { <<>>,
      << [id |-> "r-7", title |-> Str("Other rule"), enabled |-> Bool(TRUE)] >> }

\* the answer to the search request, whose filter is enabledState [true]:
\* the stored rules that are enabled, in the order they are stored
remote_listing ==
    LET listed == SelectSeq(remote, LAMBDA r : r.enabled = Bool(TRUE))
    IN  Response(200,
            Dict(<<"total" :> Num(Len(listed)),
                   "results" :> List([i \in 1..Len(listed) |->
                        Dict(<<"id" :> Str(listed[i].id), "title" :> listed[i].title>>)])>>))

\* the id the remote service assigns to the next rule it creates
new_id == "r-" \o ToString(100 + Len(remote))

InitReconcile ==
    /\ \E env \in Environments : api_token = env[1] /\ api_url = env[2]
    /\ rule_files \in GlobbedFiles(MaxFiles)
    /\ remote \in InitialRemotes
    /\ pc = "main"
    /\ rule_file = Null
    /\ file_path = ""
    /\ disk = EmptyMap
    /\ in_place = FALSE
    /\ edits = 0
    /\ heap = EmptyMap
    /\ ncalls = <<>>
    /\ errors = <<>>
    /\ warnings = <<>>
    /\ valid = TRUE
    /\ strict = FALSE
    /\ exit_code = -1
    /\ file_idx = 0
    /\ title = Null
    /\ cleaned_json = Null
    /\ search_result = NotSearched
    /\ next_endpoint = 0
    /\ calls = <<>>
    /\ write_statuses = <<>>
    /\ response = NoResponse
    /\ outcome = NoOutcome
    /\ results = EmptyResults
    /\ applied = 0

DeployTitledRule == DeployRuleFrom(TitledRuleContents)

SearchRemote == SearchRuleWith({remote_listing})

\* the PUT replaces the stored rule of that id by the payload
UpdateRemote ==
    /\ UpdateRuleWith({Response(200, Dict(<<"id" :> search_result.rule_id>>))})
    /\ remote' = [i \in 1..Len(remote) |->
                     IF Str(remote[i].id) = search_result.rule_id
                     THEN StoredRule(remote[i].id, cleaned_json)
                     ELSE remote[i]]

\* the first create endpoint stores the payload as a new rule
CreateRemote ==
    /\ CreateRuleWith({Response(201, Dict(<<"id" :> Str(new_id)>>))})
    /\ remote' = Append(remote, StoredRule(new_id, cleaned_json))

NextReconcile ==
    \/ MissingConfiguration
    \/ DeployAllRules
    \/ DeployTitledRule
    \/ SearchRemote
    \/ UpdateRemote
    \/ CreateRemote
    \/ MainExit

SpecReconcile == InitReconcile /\ [][NextReconcile]_vars

\* C12: against a remote that answers every search and write successfully
\* and consistently, applying documents with the same title one after
\* another creates the rule once and updates that rule afterwards, a
\* document whose enabled field is false included: no second create
\* succeeds for a title, so the remote never stores two rules of one title.
C12_OneRulePerTitle ==
    \A i, j \in 1..Len(remote) : remote[i].title = remote[j].title => i = j

(***************************************************************************)
(* FairSpec: the deployer keeps running until main exits: main is one      *)
(* sequential process, so a step that can be taken is taken.               *)
(***************************************************************************)
FairSpec == Init /\ [][Next]_vars /\ WF_vars(Next)

\* the documents of the batch for which deploy_rule has returned
Processed == results.successful + results.failed

\* the outcome is CREATED, UPDATED or FAILED and carries a message
IsTerminalOutcome(o) ==
    /\ o.returned
    /\ o.success \in BOOLEAN
    /\ o.message # ""
    /\ o.success => (Contains(o.message, "Created successfully")
                         \/ Contains(o.message, "Updated successfully"))

\* C13: every deploy_rule call terminates and yields exactly one outcome,
\* CREATED, UPDATED or FAILED, with a message, whatever the document (an
\* undecodable or non-mapping one included) and the responses (transport
\* failures and bodies that are not JSON included): a call issues at most
\* one search and one write per endpoint, the batch loop never sees an
\* exception, each call that was started returns, and every return adds
\* exactly one outcome.
C13_EveryCallYieldsOneOutcome ==
    /\ [](/\ pc \in {"main", "deploy_rule", "search_rule_by_title", "_update_rule",
                     "_create_rule", "summary", "exited"}
          /\ Len(calls) <= 1 + Len(create_endpoints)
          /\ (pc \in {"deploy_rule", "summary"} /\ Processed > 0) =>
                 IsTerminalOutcome(outcome)
          /\ pc \in {"deploy_rule", "search_rule_by_title", "_update_rule", "_create_rule"} =>
                 Processed = file_idx - 1)
    /\ \A i \in 1..MaxCalls :
           (pc = "deploy_rule" /\ file_idx = i) ~> (Processed >= i)

\* deploy_rule was given a file that is not JSON and returned a failure that
\* says so
C13_Witness ==
    /\ rule_file = InvalidJson
    /\ outcome = Outcome(FALSE, "Invalid JSON in logzio-rules/security/rule1.json: {str(e)}")
    /\ Processed = 1
    /\ calls = <<>>

(***************************************************************************)
(* SpecBatch: main() of deploy_security_rules.py deploys the files of a    *)
(* rules directory of at most MaxFiles files one after another, in the     *)
(* order the glob lists them.  The contents and the responses are some of  *)
(* those of Spec: for each request a success, a refusal and a transport    *)
(* failure.                                                                *)
(***************************************************************************)
BatchContents == {ExportedRule, SetAt(BaseRule, <<"output">>, Null), InvalidJson}

BatchSearchResponses ==
    { Response(200, Dict(<<"total" :> Num(1), "results" :>
          List(<<Dict(<<"id" :> Str("r-42"), "title" :> Str("Alert X")>>)>>)>>)),
      Response(200, Dict(<<"total" :> Num(0), "results" :> List(<<>>)>>)),
      NoResponse }

BatchUpdateResponses ==
    { Response(200, Dict(<<"id" :> Str("r-42")>>)),
      Response(400, Dict(<<"message" :> Str("bad rule")>>)),
      NoResponse }

BatchCreateResponses ==
    { Response(201, Dict(<<"id" :> Str("r-99")>>)),
      Response(404, Unparsable),
      NoResponse }

NextBatch ==
    \/ MissingConfiguration
    \/ DeployAllRules
    \/ DeployRuleFrom(BatchContents)
    \/ SearchRuleWith(BatchSearchResponses)
    \/ UpdateRuleWith(BatchUpdateResponses) /\ UNCHANGED remote
    \/ CreateRuleWith(BatchCreateResponses) /\ UNCHANGED remote
    \/ MainExit

SpecBatch == InitBatch(MaxFiles) /\ [][NextBatch]_vars

\* main went past its configuration check: it has a token and a URL, and
\* calls deploy_all_rules
Configured == api_token # "" /\ api_url # ""

\* the name of the document whose outcome is in `outcome`: the last one
\* processed
LastProcessed == Name(rule_files[Processed])

\* what deploy_rule returns for the file at path with that content, when
\* its search returned found and its writes were answered with statuses, the
\* last of them with answer
OwnOutcome(path, content, found, statuses, answer) ==
    IF content = InvalidJson
    THEN Outcome(FALSE, "Invalid JSON in " \o path \o ": {str(e)}")
    ELSE IF content.k # "dict"
            \/ clean_rule_json(Alloc(<<"rule">>, content), Ref(<<"rule">>), "cleaned").raised
    THEN Outcome(FALSE, "Unexpected error processing " \o Stem(path) \o ": {str(e)}")
    ELSE IF found.exists
    THEN _update_rule(found.rule_id, answer)
    ELSE IF Is2xx(statuses[Len(statuses)])
    THEN Outcome(TRUE, created_message(DeclaredCandidates[Len(statuses)], answer.body))
    ELSE Outcome(FALSE, "Failed to create at any endpoint")

\* what the search of the file at path with that content returns when it is
\* answered with answer
OwnSearch(path, content, answer) ==
    search_rule_by_title(GetOr(content, "title", Str(Stem(path))), answer)

\* C14: deploy_all_rules, once main calls it, processes every document of the
\* batch exactly once, in the order the directory listing gave them,
\* whatever the earlier outcomes were: while document i is being deployed
\* the i - 1 documents before it have each been counted once, and after the
\* batch total is the number of documents and successful + failed = total.
\* The outcome of a document is decided by its own file and its own
\* responses: in every run, whatever the documents before it were and
\* whatever became of them, the result of its search is the one its title
\* and its search response give, its outcome is the one its path, its
\* content, that result and the responses to its writes give, so that two
\* runs that give a document the same file and the same responses give it
\* the same outcome; it is a success exactly when its last write was
\* answered 2xx, and a failure is recorded under its own file name.
C14_BatchIsolation ==
    /\ (Configured /\ pc # "main") => results.total = Len(rule_files)
    /\ pc \in {"deploy_rule", "search_rule_by_title", "_update_rule", "_create_rule"} =>
           Processed = file_idx - 1
    /\ (Configured /\ pc \in {"summary", "exited"}) =>
           /\ Processed = Len(rule_files)
           /\ results.successful + results.failed = results.total
    /\ (search_result.searched /\ Len(calls) = 1) =>
           search_result = OwnSearch(rule_files[file_idx], rule_file, response)
    /\ outcome.returned =>
           /\ outcome = OwnOutcome(rule_files[Processed], rule_file, search_result,
                                   write_statuses, response)
           /\ outcome.success <=>
                  (write_statuses # <<>> /\ Is2xx(write_statuses[Len(write_statuses)]))
           /\ ~ outcome.success =>
                  results.failed_rules[Len(results.failed_rules)]
                      = [file |-> LastProcessed, error |-> outcome.message]
           /\ \A i \in 1..Len(rule_files) :
                  Contains(outcome.message, Stem(rule_files[i])) => i = Processed

\* the first of two documents, which the listing gave in the reverse order
\* of their names, failed and the second was deployed all the same
C14_Witness ==
    /\ pc = "summary"
    /\ results.total = 2
    /\ rule_files = <<"rule2.json", "rule1.json">>
    /\ results.failed_rules # <<>>
    /\ results.failed_rules[1].file = "rule2.json"
    /\ results.successful = 1
    /\ outcome.success

\* the outcome that a deploy_rule call which has just returned yielded
Kind(o, at) ==
    IF ~ o.success THEN "FAILED"
    ELSE IF at = "_update_rule" THEN "UPDATED"
    ELSE "CREATED"

\* C15: the results are an exact reduction over the outcomes: each
\* deploy_rule call that returns adds one to created when its outcome is
\* CREATED, one to updated when it is UPDATED, one to failed when it is
\* FAILED, and to nothing else, and successful = created + updated,
\* whatever URL and server-assigned id the outcome message carries.
C15_SummaryCountsOutcomes ==
    [][Processed' = Processed + 1 =>
          LET kind == Kind(outcome', pc)
          IN  /\ results'.created = results.created + (IF kind = "CREATED" THEN 1 ELSE 0)
              /\ results'.updated = results.updated + (IF kind = "UPDATED" THEN 1 ELSE 0)
              /\ results'.failed = results.failed + (IF kind = "FAILED" THEN 1 ELSE 0)
              /\ results'.successful = results'.created + results'.updated]_vars

\* C16: failed_rules holds one entry per document whose outcome is FAILED,
\* with the file name and the message of that outcome, in the order the
\* documents were processed: a call that returns a failure appends its
\* entry at the end, a call that returns a success leaves the list as it is.
C16_FailedDetailsInOrder ==
    [][Processed' = Processed + 1 =>
          results'.failed_rules =
              IF outcome'.success THEN results.failed_rules
              ELSE Append(results.failed_rules,
                          [file |-> Name(rule_files[file_idx]),
                           error |-> outcome'.message])]_vars

\* two documents failed for different reasons; their entries are in order
C16_Witness ==
    /\ Len(results.failed_rules) = 2
    /\ results.failed_rules[1].file = "rule1.json"
    /\ results.failed_rules[1].error = "Failed to create at any endpoint"
    /\ results.failed_rules[2].file = "rule2.json"
    /\ results.failed_rules[2].error = "Unexpected error processing rule2: {str(e)}"

\* C17, as stated: main exits 0 exactly when no document outcome is FAILED:
\* each failed outcome is counted and listed, and the exit status is 1 when
\* the list of failures is not empty and 0 when it is empty, an empty batch
\* included.
C17_ExitStatusIsConjunctionOfOutcomes ==
    /\ [](pc = "exited" =>
              /\ exit_code \in {0, 1}
              /\ exit_code = 0 <=> results.failed_rules = <<>>)
    /\ [][Processed' = Processed + 1 =>
              /\ ~ outcome'.success =>
                     Len(results'.failed_rules) = Len(results.failed_rules) + 1
              /\ outcome'.success => results'.failed_rules = results.failed_rules]_vars

\* C17, amended: main exits 0 exactly when it has a token and a URL and no
\* document outcome is FAILED: each failed outcome is counted and listed,
\* the exit status of a run that deploys is 1 when the list of failures is
\* not empty and 0 when it is empty, an empty batch included, and a run
\* without a token or without a URL exits 1 with no document processed.
C17_ExitStatusOfConfiguredRun ==
    /\ [](pc = "exited" =>
              /\ exit_code \in {0, 1}
              /\ exit_code = 0 <=> (Configured /\ results.failed_rules = <<>>)
              /\ ~ Configured => Processed = 0)
    /\ [][Processed' = Processed + 1 =>
              /\ Configured
              /\ ~ outcome'.success =>
                     Len(results'.failed_rules) = Len(results.failed_rules) + 1
              /\ outcome'.success => results'.failed_rules = results.failed_rules]_vars

\* main had a token and a URL, the second of two documents failed and main
\* exited with status 1
C17_Witness ==
    /\ pc = "exited"
    /\ Configured
    /\ exit_code = 1
    /\ results.successful = 1
    /\ results.failed_rules # <<>>
    /\ results.failed_rules[1].file = Name(rule_files[2])

\* the search was answered 200 with a listing and nothing was sent since
SearchAnsweredWithListing ==
    /\ search_result.searched
    /\ Len(calls) = 1
    /\ response.status = 200
    /\ response.body # Unparsable
    /\ response.body.k = "dict"
    /\ "results" \in DOMAIN response.body.v
    /\ response.body.v["results"].k = "list"

\* the positions of the listing whose rule has the searched title
Matches(listing) == {i \in 1..Len(listing) : Get(listing[i], "title") = title}

\* C18: search_rule_by_title returns exists = true exactly when a rule of the
\* listing has a title equal to the searched title as a whole string, and
\* then the id of the first such rule, whatever the titles of the other
\* listed rules are (absent and null titles included): the diagnostics on
\* the first entries change neither.
C18_ExactMatchDecidesResult ==
    SearchAnsweredWithListing =>
        LET listing == response.body.v["results"].v
            first == CHOOSE i \in Matches(listing) : \A j \in Matches(listing) : i <= j
        IN  /\ search_result.exists <=> Matches(listing) # {}
            /\ Matches(listing) # {} =>
                   search_result.rule_id = GetOr(listing[first], "id", Null)

(***************************************************************************)
(* Properties of the checks on searchTimeFrameMinutes.                     *)
(***************************************************************************)
TimeFrame == At(rule_file, <<"searchTimeFrameMinutes">>)
MustBeNumber == "'searchTimeFrameMinutes' must be a number in {file_path}"
MustBePositive == "'searchTimeFrameMinutes' must be positive in {file_path}"
\* validate_security_rule reported the error text
Reported(text) == \E i \in 1..Len(errors) : errors[i].text = text

\* the e-mail recipients, when listed, are texts
EmailsAreText(d) ==
    LET emails == At(d, <<"output", "recipients", "emails">>)
    IN  emails.k = "list" => \A i \in 1..Len(emails.v) : IsText(emails.v[i])

\* the document is schema-valid but for its searchTimeFrameMinutes
OtherwiseSchemaValid(d) ==
    /\ d.k = "dict"
    /\ SchemaValid(SetAt(d, <<"searchTimeFrameMinutes">>, Num(5)))
    /\ EmailsAreText(d)

\* C19: for a document that is otherwise schema-valid, a numeric
\* searchTimeFrameMinutes that is zero or negative produces exactly one
\* error, which names searchTimeFrameMinutes and says it must be positive.
C19_NonPositiveTimeFrameOneError ==
    (pc # "edit" /\ RuleChecked /\ OtherwiseSchemaValid(rule_file)
         /\ IsJsonNumber(TimeFrame) /\ TimeFrame.v <= 0) =>
        /\ pc # "crashed"
        /\ Len(errors) = 1
        /\ errors[1].text = MustBePositive
        /\ ~ valid

\* the rule of Scenario A: searchTimeFrameMinutes is -5, all else is valid
C19_Witness ==
    /\ pc = "validated"
    /\ TimeFrame = Num(-5)
    /\ OtherwiseSchemaValid(rule_file)
    /\ Len(errors) = 1
    /\ ~ valid

\* values of searchTimeFrameMinutes of every JSON kind
TimeFrameValues ==
    { Num(5), Num(0), Num(-5), Bool(TRUE), Bool(FALSE), Null, Str("5"), Str("-5"),
      Str(""), List(<<>>), List(<<Num(-5)>>), Dict(<<>>) }

\* validate_security_rule reports both findings for rule
BothFindings(rule) ==
    LET found == validate_security_rule(<<>>, <<>>, rule, "rule.json").errors
        texts == {found[i].text : i \in 1..Len(found)}
    IN  MustBeNumber \in texts /\ MustBePositive \in texts

\* none of the values, in the base rule or in a rule that has nothing else,
\* gets both findings
NoValueGetsBoth ==
    \A val \in TimeFrameValues :
        /\ ~ BothFindings(SetAt(BaseRule, <<"searchTimeFrameMinutes">>, val))
        /\ ~ BothFindings(Dict(<<"searchTimeFrameMinutes" :> val>>))

\* C20 as stated: the numeric check and the > 0 check are independent, each
\* is evaluated whatever the result of the other, so that there are inputs
\* for which both findings are produced in the same validation: one of the
\* values of searchTimeFrameMinutes, in the base rule, in a rule that has
\* nothing else or in the rule file at hand, gets both.
C20_BothChecksEvaluated ==
    \E val \in TimeFrameValues :
        \/ BothFindings(SetAt(BaseRule, <<"searchTimeFrameMinutes">>, val))
        \/ BothFindings(Dict(<<"searchTimeFrameMinutes" :> val>>))
        \/ /\ rule_file.k = "dict"
           /\ BothFindings(SetAt(rule_file, <<"searchTimeFrameMinutes">>, val))

\* C20 amended: the > 0 check is evaluated only when the numeric check has
\* passed, and the numeric check passes for a number and for a boolean: a
\* value that is neither (a text, null, a list, a mapping) gets the "must be
\* a number" finding alone, a number that is zero or negative and the
\* boolean false get the "must be positive" finding alone, a positive
\* number and the boolean true get neither, and no validation produces both
\* findings.
C20_PositiveCheckedOnlyForNumbers ==
    /\ NoValueGetsBoth
    /\ (pc = "validated" /\ RuleChecked) =>
           /\ ~ (Reported(MustBeNumber) /\ Reported(MustBePositive))
           /\ Reported(MustBeNumber) <=> TimeFrame.k \notin {"absent", "num", "bool"}
           /\ Reported(MustBePositive) <=>
                  \/ TimeFrame.k = "num" /\ TimeFrame.v <= 0
                  \/ TimeFrame = Bool(FALSE)

\* searchTimeFrameMinutes is the text "5": it is reported as not a number
\* and nothing is said about its sign
C20_Witness ==
    /\ pc = "validated"
    /\ TimeFrame = Str("5")
    /\ Reported(MustBeNumber)
    /\ ~ Reported(MustBePositive)

\* the keys _update_rule reads the error message from, in its order
MessageKeys == <<"message", "error", "errorMessage">>

\* the update of the current file was answered with a status that is not
\* 2xx and a body that is a JSON object
UpdateRefused ==
    /\ Len(UpdateCalls) = 1
    /\ pc # "_update_rule"
    /\ response.status # ConnectionFailed
    /\ ~ Is2xx(response.status)
    /\ BodyIsObject

\* the text of the first of MessageKeys whose value in body satisfies P, or
\* the default when there is none
FirstMessage(body, P(_)) ==
    LET hits == {i \in 1..Len(MessageKeys) :
                    MessageKeys[i] \in DOMAIN body.v /\ P(body.v[MessageKeys[i]])}
    IN  IF hits = {} THEN "No error message provided"
        ELSE PyStr(body.v[MessageKeys[CHOOSE i \in hits : \A j \in hits : i <= j]])

\* C21 as stated: when an update gets a non-2xx response, the failure message
\* is the value under the first of the keys message, error, errorMessage
\* that is present in the body, and the default 'No error message provided'
\* only when none of the three keys is present.
C21_FirstPresentKey ==
    UpdateRefused =>
        outcome = Outcome(FALSE, "Update failed: "
                                     \o FirstMessage(response.body, LAMBDA val : TRUE))

\* C21 amended: the failure message is the value under the first of the keys
\* message, error, errorMessage whose value is not empty (not "", null,
\* false, 0 or an empty container); a key that is present with an empty value
\* is passed over, and the default is used when none of the three keys has a
\* non-empty value.
C21_FirstNonEmptyKey ==
    UpdateRefused =>
        outcome = Outcome(FALSE, "Update failed: " \o FirstMessage(response.body, Truthy))

\* the body has an empty message and an error: the failure reports the error
C21_Witness ==
    /\ UpdateRefused
    /\ response.body = Dict(<<"message" :> Str(""), "error" :> Str("denied")>>)
    /\ outcome.message = "Update failed: denied"
    /\ results.failed = 1

\* the parts of a rule that validate_security_rule checks one after another
RootParts ==
    {"title", "enabled", "searchTimeFrameMinutes", "output", "subComponents",
     "correlations", "tags"}

\* the base rule with the part of the rule file in place of its own
OnlyPart(part) == SetAt(BaseRule, <<part>>, At(rule_file, <<part>>))

\* the base rule with as many subComponents as the rule file has, all of
\* them the base component but the one at index idx, which is the rule file's
OnlyComponent(idx) ==
    LET components == At(rule_file, <<"subComponents">>).v
    IN  SetAt(BaseRule, <<"subComponents">>,
              List([i \in 1..Len(components) |->
                       IF i = idx + 1 THEN components[i] ELSE BaseComponent]))

\* how many times msg is in the list msgs
Count(msg, msgs) == Cardinality({i \in 1..Len(msgs) : msgs[i] = msg})

RECURSIVE SumOver(_, _)
\* the sum of f over its domain's elements in S
SumOver(f, S) ==
    IF S = {} THEN 0
    ELSE LET x == CHOOSE x \in S : TRUE IN f[x] + SumOver(f, S \ {x})

\* the errors validate_security_rule reports for rule, when it returns
ErrorsOf(rule) == validate_security_rule(<<>>, <<>>, rule, file_path).errors
Returns(rule) == ~ validate_security_rule(<<>>, <<>>, rule, file_path).raised

\* the rule file has a non-empty list of subComponents
HasComponents ==
    /\ At(rule_file, <<"subComponents">>).k = "list"
    /\ Len(At(rule_file, <<"subComponents">>).v) > 0

ComponentIndexes ==
    IF HasComponents THEN 0..(Len(At(rule_file, <<"subComponents">>).v) - 1) ELSE {}

\* C22: the findings are fully collected: the errors reported for a rule are
\* the errors each of its parts gets on its own, each absent required field
\* giving its one error, and what is wrong with one part or one subComponent
\* never keeps the errors of another part, or of another subComponent (with
\* its zero-based index), out of the report.
C22_FindingsFullyCollected ==
    (pc # "edit" /\ RuleChecked) =>
        /\ \A part \in RootParts : Returns(OnlyPart(part)) =>
               \A i \in 1..Len(ErrorsOf(OnlyPart(part))) :
                   LET msg == ErrorsOf(OnlyPart(part))[i]
                   IN  Count(msg, errors) >= Count(msg, ErrorsOf(OnlyPart(part)))
        /\ \A idx \in ComponentIndexes : Returns(OnlyComponent(idx)) =>
               \A i \in 1..Len(ErrorsOf(OnlyComponent(idx))) :
                   LET msg == ErrorsOf(OnlyComponent(idx))[i]
                   IN  Count(msg, errors) >= Count(msg, ErrorsOf(OnlyComponent(idx)))
        /\ pc # "crashed" =>
               \A i \in 1..Len(errors) :
                   Count(errors[i], errors) =
                       SumOver([part \in RootParts |->
                                   Count(errors[i], ErrorsOf(OnlyPart(part)))], RootParts)

\* the severityThresholdTiers of the subComponent at index idx of the rule file
TiersOf(idx) ==
    At(rule_file, <<"subComponents", ToString(idx), "trigger", "severityThresholdTiers">>)

\* the errors that the loop over the tiers of the subComponent at idx appended
TierErrors(idx) ==
    SelectSeq(errors, LAMBDA msg :
        \/ msg.text = "Invalid severity '{}' in " \o ComponentRef(idx)
               \o ".trigger of {file_path}. Must be one of: LOW, MEDIUM, HIGH, SEVERE"
        \/ msg.text = "Threshold for {} must be a number in " \o ComponentRef(idx)
               \o ".trigger of {file_path}")

\* C23: for a trigger whose severityThresholdTiers is a mapping, the key
\* check and the value check run on every entry independently: the tiers
\* contribute as many errors as they have keys outside LOW, MEDIUM, HIGH,
\* SEVERE plus values that are not numbers.
C23_TierErrorsCounted ==
    (pc = "validated" /\ RuleChecked) =>
        \A idx \in ComponentIndexes : IsMapping(TiersOf(idx)) =>
            Len(TierErrors(idx)) =
                Cardinality({key \in DOMAIN TiersOf(idx).v :
                                key \notin {"LOW", "MEDIUM", "HIGH", "SEVERE"}})
                + Cardinality({key \in DOMAIN TiersOf(idx).v :
                                  ~ IsJsonNumber(TiersOf(idx).v[key])})

\* the normalized rule file: the document of the rule file without the
\* server-owned fields of its root and without the notificationEndpointIds
\* of its output.recipients, all else as it was loaded
NormalizedRuleFile ==
    ApplyAll(rule_file,
        << Edit(<<"id">>, Absent),
           Edit(<<"createdAt">>, Absent),
           Edit(<<"createdBy">>, Absent),
           Edit(<<"updatedAt">>, Absent),
           Edit(<<"updatedBy">>, Absent),
           Edit(<<"output", "recipients", "notificationEndpointIds">>, Absent) >>)

\* the first request for a document is the search; every later one is a
\* write, issued after the search has returned, with the normalized rule
\* file as its payload
WritesFollowSearch ==
    \A i \in 1..Len(calls) :
        IF i = 1
        THEN calls[i] = Call("POST", "https://api.logz.io/security/rules/search", SearchQuery)
        ELSE /\ IsCreateCall(calls[i]) \/ IsUpdateCall(calls[i])
             /\ search_result.searched
             /\ calls[i].json = NormalizedRuleFile

\* from the moment deploy_rule is about to search, the document it holds
\* for the requests is the normalized rule file
NormalizedBeforeSearch ==
    pc \in {"search_rule_by_title", "_update_rule", "_create_rule"} =>
        cleaned_json = NormalizedRuleFile

\* a step that issues a request changes neither the rule file nor
\* cleaned_json
RequestsKeepDocument ==
    calls' # <<>> => (rule_file' = rule_file /\ cleaned_json' = cleaned_json)

\* a document whose outcome is known gets no further request
NoCallAfterOutcome == outcome.returned => (calls' = calls \/ calls' = <<>>)

SearchAnswered == search_result.searched /\ Len(calls) = 1

\* reading entry i of the listing raises: rule.get on a value that is not a
\* mapping, or the [:50] of the printed comparison of the first three entries
EntryRaises(listing, i) ==
    \/ listing[i].k # "dict"
    \/ /\ i <= 3
       /\ \/ GetOr(listing[i], "title", Str("")).k \notin {"str", "list"}
          \/ title.k \notin {"str", "list"}

\* entry i of the listing is read and has the searched title
EntryFound(listing, i) ==
    /\ ~ EntryRaises(listing, i)
    /\ PyEq(GetOr(listing[i], "title", Str("")), title)

\* an entry raises before any entry is found
ScanRaises(listing) ==
    \E i \in 1..Len(listing) :
        /\ EntryRaises(listing, i)
        /\ \A j \in 1..(i - 1) : ~ EntryFound(listing, j)

\* the search did not complete: no response, a status other than 200, a
\* body that is not a mapping with a list of results, or an exception while
\* the results are scanned
SearchFailed ==
    \/ response.status = ConnectionFailed
    \/ response.status # 200
    \/ response.body = Unparsable
    \/ response.body.k # "dict"
    \/ "results" \notin DOMAIN response.body.v
    \/ response.body.v["results"].k # "list"
    \/ ScanRaises(response.body.v["results"].v)

\* C25: whenever the search does not complete successfully,
\* search_rule_by_title returns exists = false with no id and deploy_rule
\* goes on to the create flow without returning an outcome; no update is
\* ever issued for a document whose search returned exists = false, and the
\* first write after such a search is a create attempt.
C25_FailedSearchLeadsToCreate ==
    /\ (SearchAnswered /\ SearchFailed) =>
           /\ search_result = SearchResult(FALSE, Null)
           /\ pc = "_create_rule"
           /\ ~ outcome.returned
    /\ (search_result.searched /\ ~ search_result.exists) =>
           /\ UpdateCalls = <<>>
           /\ Len(calls) >= 2 => IsCreateCall(calls[2])

\* the listing has a rule with a null title in front of the rule with the
\* searched title: the scan raises at the first, and the create flow is next
C25_Witness ==
    /\ SearchAnswered
    /\ response = Response(200, Dict(<<"total" :> Num(2), "results" :>
           List(<<Dict(<<"id" :> Str("r-9"), "title" :> Null>>),
                  Dict(<<"id" :> Str("r-42"), "title" :> Str("Alert X")>>)>>)>>))
    /\ title = Str("Alert X")
    /\ SearchFailed
    /\ pc = "_create_rule"

\* C26: whenever search_rule_by_title returns exists = true, the rule_id it
\* returns is a non-null id, and every update request is addressed to the
\* update endpoint followed by that id, never to one built from a missing
\* id.
C26_UpdateTargetHasId ==
    /\ search_result.exists => search_result.rule_id # Null
    /\ \A i \in 1..Len(calls) :
           IsUpdateCall(calls[i]) =>
               /\ search_result.exists
               /\ search_result.rule_id # Null
               /\ calls[i].url # update_endpoint \o "/None"

====
